---- MODULE Spec2Model ----
(***************************************************************************)
(* MAX1726x fuel-gauge driver: the register access layer                   *)
(* (write_register, read_register, write_and_verify_register) and the      *)
(* ez_config initialisation procedure of src/src/comms.rs, run against a   *)
(* device register file reached through an I2C transport that may fail.    *)
(*                                                                         *)
(* Every bus transaction is one step of the driver; the device's hardware  *)
(* may change its registers between two transactions.  `log` records the   *)
(* bus frames and the delays the driver issued, in order.                  *)
(*                                                                         *)
(* Further specifications cover the measurement accessors called one after *)
(* the other (SpecAccess), the bitfield and flag decoding of register      *)
(* words (SpecCodec) and the MAX17263 register resolver of                 *)
(* src/src/max17263/registers.rs (SpecConv).                               *)
(***************************************************************************)
EXTENDS Integers, Sequences, FiniteSets, TLC

VARIABLES
    dev,           \* device register file: register address -> 16-bit word
    op,            \* the driver method being executed
    pc,            \* position inside that method
    cfg,           \* ez_config's EzConfig argument
    status_flags,  \* `status` of comms.rs:216 (Status bitflags)
    hib_cfg,       \* `hib_cfg` of comms.rs:235 (HibCfg, as its two bytes)
    status,        \* `status` of comms.rs:280 (raw u16)
    wv_register,   \* write_and_verify_register: `register`
    wv_data,       \* write_and_verify_register: `data`
    attempt,       \* write_and_verify_register: `attempt`
    read_value,    \* write_and_verify_register: `read_value`
    result,        \* the method's return value
    log,           \* bus frames and delays issued so far by this call
    wv_from,       \* length of log when write_and_verify_register was entered
                   \* (-1 before that)
    wv_result,     \* what write_and_verify_register returned to its caller
    word,          \* input of the pure register-word operations
    out,           \* their output
    register_resolver, \* the resolver's r_sense, in milliohms
    bcs            \* battery_charge_status: rep_cap, rep_soc, tte read so far

vars == <<dev, op, pc, cfg, status_flags, hib_cfg, status, wv_register, wv_data,
          attempt, read_value, result, log, wv_from, wv_result, word, out,
          register_resolver, bcs>>

drv == <<op, pc, cfg, status_flags, hib_cfg, status, wv_register, wv_data,
         attempt, read_value, result, log, wv_from, wv_result>>

\* the driver state the measurement accessors use
acc == <<register_resolver, bcs>>

-----------------------------------------------------------------------------
(* Register addresses and command words                                    *)

STATUS == 0
F_STAT == 61
HIB_CFG == 186
SOFT_WAKEUP == 96
DESIGN_CAP == 24
I_CHG_TERM == 30
V_EMPTY == 58
MODEL_CFG == 219
REP_CAP == 5
REP_SOC == 6
TTE == 17
\* the MAX17263 Model
V_CELL == 9
CURRENT == 10
TEMP == 8

SoftWakeup_CLEAR == 0
SoftWakeup_SOFT_WAKEUP == 144

Registers == {STATUS, F_STAT, HIB_CFG, SOFT_WAKEUP, DESIGN_CAP, I_CHG_TERM,
              V_EMPTY, MODEL_CFG, REP_CAP, REP_SOC, TTE, V_CELL, CURRENT, TEMP}

-----------------------------------------------------------------------------
(* 16-bit word arithmetic                                                  *)

Pow2(n) == 2 ^ n

Bit(w, i) == (w \div Pow2(i)) % 2

RECURSIVE BitAnd(_, _)
BitAnd(a, b) ==
    IF a = 0 \/ b = 0 THEN 0
    ELSE (a % 2) * (b % 2) + 2 * BitAnd(a \div 2, b \div 2)

RECURSIVE BitOr(_, _)
BitOr(a, b) ==
    IF a = 0 THEN b
    ELSE IF b = 0 THEN a
    ELSE (IF a % 2 = 1 \/ b % 2 = 1 THEN 1 ELSE 0) + 2 * BitOr(a \div 2, b \div 2)

\* u16::to_le_bytes / u16::from_le_bytes
to_le_bytes(w) == <<w % 256, w \div 256>>
from_le_bytes(b) == b[1] + 256 * b[2]

-----------------------------------------------------------------------------
(* Bitflags and bitfields of registers.rs                                  *)

Status_POR == Pow2(1)
Status_all ==
    Pow2(1) + Pow2(2) + Pow2(6) + Pow2(8) + Pow2(12) + Pow2(9) + Pow2(13)
    + Pow2(10) + Pow2(14) + Pow2(3) + Pow2(7) + Pow2(11) + Pow2(15)
\* faulty variant: from_bits_retain, which keeps the bits that name no flag
Status_from_bits_retain(bits) == bits

Status_from_bits_truncate(bits) == BitAnd(bits, Status_all)

FStat_DNR == 1
FStat_all == 1 + Pow2(7) + Pow2(8) + Pow2(9) + Pow2(6)
FStat_from_bits_truncate(bits) == BitAnd(bits, FStat_all)

is_empty(flags) == flags = 0

\* #[bitfield(bits = 16)] structs keep the register's two bytes
HibCfg_from_bytes(b) == b
\* faulty variant: the word is rebuilt from the five named fields, which drops
\* the skipped bits 5..7
HibCfg_into_u16_named_fields(b) == BitAnd(from_le_bytes(b), 65311)

HibCfg_into_u16(b) == from_le_bytes(b)
ModelCfg_from_u16(w) == to_le_bytes(w)

\* faulty variant: any bit of the word counts as Refresh
ModelCfg_refresh_any_bit(b) == b # <<0, 0>>

ModelCfg_refresh(b) == (b[2] \div 128) % 2 = 1
\* faulty variant: the two bytes come out MSB first
VEmpty_into_bytes_msb_first(b) == <<b[2], b[1]>>

VEmpty_into_bytes(b) == b

\* the #[bitfield(bits = 16)] #[repr(u16)] types and their fields, from bit 0
\* upwards: the width of each field and whether it is #[skip]ped
BitfieldTypes ==
    {"HibCfg", "ModelCfg", "VEmpty", "StatusBitField", "LedCfg1", "LedCfg2", "LedCfg3"}

Fld(n) == [bits |-> n, skip |-> FALSE]
Skp(n) == [bits |-> n, skip |-> TRUE]

bitfield_layout(t) ==
    CASE t = "HibCfg" -> <<Fld(3), Fld(2), Skp(3), Fld(4), Fld(3), Fld(1)>>
      [] t = "ModelCfg" ->
            <<Skp(2), Skp(2), Fld(4), Skp(2), Fld(1), Skp(2), Fld(1), Skp(1), Fld(1)>>
      [] t = "VEmpty" -> <<Fld(7), Fld(9)>>
      [] t = "StatusBitField" ->
            <<Skp(1), Fld(1), Fld(1), Fld(1), Skp(2), Fld(1), Fld(1), Fld(1), Fld(1),
              Fld(1), Fld(1), Fld(1), Fld(1), Fld(1), Fld(1)>>
      [] t = "LedCfg1" -> <<Fld(4), Fld(1), Fld(1), Fld(2), Fld(2), Fld(3), Fld(3)>>
      [] t = "LedCfg2" -> <<Fld(5), Fld(1), Fld(1), Fld(1), Fld(1), Fld(6), Fld(1)>>
      [] t = "LedCfg3" -> <<Skp(13), Fld(1), Fld(1), Fld(1)>>

\* a field getter: `width` bits of the struct's two bytes, from bit `off`
bitfield_get(bytes, off, width) ==
    ((bytes[1] + 256 * bytes[2]) \div Pow2(off)) % Pow2(width)

\* the fields k.. of a layout (field k lying at bit `off`) put back at their
\* offsets; skipped ones only when `with_skipped`
RECURSIVE bitfield_assemble(_, _, _, _, _)
bitfield_assemble(layout, bytes, k, off, with_skipped) ==
    IF k > Len(layout) THEN 0
    ELSE (IF layout[k].skip /\ ~with_skipped THEN 0
          ELSE bitfield_get(bytes, off, layout[k].bits) * Pow2(off))
         + bitfield_assemble(layout, bytes, k + 1, off + layout[k].bits, with_skipped)

\* bit offset of the k-th field of a layout: the widths before it
RECURSIVE bitfield_offset(_, _)
bitfield_offset(layout, k) ==
    IF k = 1 THEN 0 ELSE layout[k - 1].bits + bitfield_offset(layout, k - 1)

\* faulty variant: the fields are laid out from bit 15 downwards
bitfield_field_msb_first(t, bytes, k) ==
    bitfield_get(bytes,
                 16 - bitfield_offset(bitfield_layout(t), k) - bitfield_layout(t)[k].bits,
                 bitfield_layout(t)[k].bits)

\* the getter of the k-th field of the type t
bitfield_field(t, bytes, k) ==
    bitfield_get(bytes, bitfield_offset(bitfield_layout(t), k), bitfield_layout(t)[k].bits)

\* a field setter: the struct's two bytes with `width` bits from bit `off`
\* replaced by v
bitfield_set(bytes, off, width, v) ==
    to_le_bytes(from_le_bytes(bytes)
                - bitfield_get(bytes, off, width) * Pow2(off)
                + (v % Pow2(width)) * Pow2(off))

\* faulty variant: the setter builds a new struct holding the threshold alone
HibCfg_set_hib_threshold_alone(b, v) == bitfield_set(<<0, 0>>, 8, 4, v)

\* HibCfg::set_hib_threshold: the setter of the 4th declared field
HibCfg_set_hib_threshold(b, v) ==
    bitfield_set(b, bitfield_offset(bitfield_layout("HibCfg"), 4),
                 bitfield_layout("HibCfg")[4].bits, v)

\* From<u16>: the struct is the word's two bytes, LSB first
bitfield_from_u16(t, w) == to_le_bytes(w)

\* faulty variant: the word is rebuilt from the named fields alone
bitfield_into_u16_named_fields(t, b) ==
    bitfield_assemble(bitfield_layout(t), b, 1, 0, FALSE)

\* Into<u16>: the struct's two bytes as one word
bitfield_into_u16(t, b) == from_le_bytes(b)

-----------------------------------------------------------------------------
(* Results                                                                 *)

Pending == [tag |-> "Pending"]
Ok == [tag |-> "Ok"]
OkValue(v) == [tag |-> "Ok", value |-> v]
Error_I2c(e) == [tag |-> "I2c", err |-> e]
\* faulty variant: the written and the read word change places
Error_WriteNotVerified_swapped(r, w, rd) ==
    [tag |-> "WriteNotVerified", register |-> r, write |-> rd, read |-> w]

Error_WriteNotVerified(r, w, rd) ==
    [tag |-> "WriteNotVerified", register |-> r, write |-> w, read |-> rd]

-----------------------------------------------------------------------------
(* Bounds and input sets                                                   *)

\* poll iterations (10 ms delays) one call may perform before the model stops
MaxPoll == 2

NoError == "none"
TransportErrors == {"NoAcknowledge", "Bus"}
Outcomes == {NoError} \cup TransportErrors

\* STATUS words the device may hold when the driver is created
StatusInit == {32898, 128, 65535}
\* F_STAT words: DNR set / clear, with and without other flags
FStatInit == {1, 897}
\* HIB_CFG words: the power-up value 0x870C and one with reserved bits 5..7 set
HibCfgInit == {34572, 43767}
\* status bits the hardware may raise on its own (Imn)
HwStatusBits == {2}
\* registers whose writes the device may ignore under internal load
LossyRegs == {STATUS}
\* "The FStat register is a read-only register": writes to it change nothing
ReadOnlyRegs == {F_STAT}

ChargeVoltages == {4275, 4276}
Configs ==
    [charge_voltage_mv : ChargeVoltages, design_cap_mah : {3000},
     i_chg_term_ma : {256}, v_empty_mv : {to_le_bytes(42337)}]

\* arguments of a direct write_and_verify_register call
VerifyRegisters == {STATUS, F_STAT}
VerifyData == {0, 3000}

-----------------------------------------------------------------------------
(* Device and transport                                                    *)

\* the device stores the two payload bytes of a write frame, LSB first
DevLatch(payload) == [dev EXCEPT ![payload[1]] = payload[2] + 256 * payload[3]]
\* and answers a read with the register's two bytes, LSB first
DevBytes(register) == <<dev[register] % 256, dev[register] \div 256>>

\* i2c.write(ADDR, &payload): a completed frame is latched, unless the device
\* ignores it; a failed frame may or may not have reached the register
i2c_write(payload, e) ==
    \/ /\ payload[1] \notin ReadOnlyRegs
       /\ dev' = DevLatch(payload)
    \/ /\ e # NoError \/ payload[1] \in LossyRegs \cup ReadOnlyRegs
       /\ dev' = dev

WriteEv(payload, e) == [kind |-> "write", payload |-> payload, err |-> e]
ReadEv(register, data, e) ==
    [kind |-> "read", register |-> register, data |-> data, err |-> e]
DelayEv(ms) == [kind |-> "delay", ms |-> ms]

\* the hardware is observed until the driver's call has returned
Observed == pc # "done"

\* hardware raises a status flag
HwSetStatus ==
    /\ Observed
    /\ \E b \in HwStatusBits :
          /\ Bit(dev[STATUS], b) = 0
          /\ dev' = [dev EXCEPT ![STATUS] = dev[STATUS] + Pow2(b)]
    /\ UNCHANGED <<drv, word, out, acc>>

\* FStat.DNR: "the IC clears this bit" once the output registers are updated
HwDataReady ==
    /\ Observed
    /\ Bit(dev[F_STAT], 0) = 1
    /\ dev' = [dev EXCEPT ![F_STAT] = dev[F_STAT] - 1]
    /\ UNCHANGED <<drv, word, out, acc>>

\* ModelCfg.Refresh: "After execution, the MAX1726x clears Refresh to 0"
HwModelReloaded ==
    /\ Observed
    /\ Bit(dev[MODEL_CFG], 15) = 1
    /\ dev' = [dev EXCEPT ![MODEL_CFG] = dev[MODEL_CFG] - Pow2(15)]
    /\ UNCHANGED <<drv, word, out, acc>>

-----------------------------------------------------------------------------
(* Register access layer                                                   *)

\* faulty variant: the word is sent MSB first
write_register_payload_msb_first(register, data) ==
    <<register, BitAnd(data, 65280) \div 256, BitAnd(data, 255)>>

\* write_register: the 3-byte frame [register, lsb, msb]
write_register_payload(register, data) ==
    <<register, BitAnd(data, 255), BitAnd(data, 65280) \div 256>>

\* read_register_as_u16: (data[1] << 8) | data[0]
read_register_as_u16(data) == BitOr(data[2] * 256, data[1])

\* what a successful read of `register` returns now
ReadNow(register) == read_register_as_u16(DevBytes(register))

NumDelays(l, ms) == Cardinality({i \in 1..Len(l) : l[i] = DelayEv(ms)})

Return(r) == pc' = "done" /\ result' = r
Goto(p) == pc' = p /\ result' = result

\* faulty variant: the write's error is dropped and the procedure goes on
WriteStep_ignoring_failure(register, data, next) ==
    \E e \in Outcomes :
       /\ i2c_write(write_register_payload(register, data), e)
       /\ log' = Append(log, WriteEv(write_register_payload(register, data), e))
       /\ Goto(next)

\* one write_register(register, data)? of ez_config
WriteStep(register, data, next) ==
    \E e \in Outcomes :
       /\ i2c_write(write_register_payload(register, data), e)
       /\ log' = Append(log, WriteEv(write_register_payload(register, data), e))
       /\ IF e = NoError THEN Goto(next) ELSE Return(Error_I2c(e))

ReadLog(register, e) ==
    Append(log, ReadEv(register,
                       IF e = NoError THEN DevBytes(register) ELSE <<0, 0>>, e))

-----------------------------------------------------------------------------
(* write_and_verify_register                                               *)

\* faulty variant: the read-back is not compared
verified_always(data, rv) == TRUE

\* `data == read_value` (comms.rs:96)
verified(data, rv) == data = rv

\* faulty variants: one retry too many, one too few
retries_exhausted_after_5(a) == a > 4
retries_exhausted_after_3(a) == a > 2

\* `attempt > 3` (comms.rs:100)
retries_exhausted(a) == a > 3

\* the caller's continuation: ez_config's `?` on comms.rs:285
wv_return(r) ==
    /\ wv_result' = r
    /\ IF op = "ez_config" /\ r = Ok THEN Goto("rep_cap") ELSE Return(r)

write_and_verify_register_call ==
    /\ pc = "idle"
    /\ \E register \in VerifyRegisters, data \in VerifyData :
          /\ wv_register' = register
          /\ wv_data' = data
    /\ op' = "write_and_verify_register"
    /\ attempt' = 0
    /\ wv_from' = Len(log)
    /\ pc' = "wv_write"
    /\ UNCHANGED <<dev, cfg, status_flags, hib_cfg, status, read_value, result,
                   log, wv_result, word, out, acc>>

\* self.write_register(register, data)?; delay.delay_ms(1);
wv_write ==
    /\ pc = "wv_write"
    /\ \E e \in Outcomes :
          /\ i2c_write(write_register_payload(wv_register, wv_data), e)
          /\ IF e = NoError
             THEN /\ log' = Append(Append(log,
                               WriteEv(write_register_payload(wv_register, wv_data), e)),
                               DelayEv(1))
                  /\ Goto("wv_read")
                  /\ UNCHANGED wv_result
             ELSE /\ log' = Append(log,
                               WriteEv(write_register_payload(wv_register, wv_data), e))
                  /\ wv_return(Error_I2c(e))
    /\ UNCHANGED <<op, cfg, status_flags, hib_cfg, status, wv_register, wv_data,
                   attempt, read_value, wv_from, word, out, acc>>

\* faulty variant: a failed read-back counts as a mismatch and is retried
wv_read_retrying_failures ==
    /\ pc = "wv_read"
    /\ \E e \in Outcomes :
          /\ log' = ReadLog(wv_register, e)
          /\ read_value' = IF e = NoError THEN ReadNow(wv_register) ELSE 0
          /\ IF e = NoError /\ verified(wv_data, ReadNow(wv_register))
             THEN /\ wv_return(Ok)
                  /\ attempt' = attempt
             ELSE /\ attempt' = attempt + 1
                  /\ IF retries_exhausted(attempt + 1)
                     THEN wv_return(Error_WriteNotVerified(
                              wv_register, wv_data, read_value'))
                     ELSE Goto("wv_write") /\ UNCHANGED wv_result
    /\ UNCHANGED <<dev, op, cfg, status_flags, hib_cfg, status, wv_register,
                   wv_data, wv_from, word, out, acc>>

\* let read_value = self.read_register_as_u16(register)?; compare; count; retry
wv_read ==
    /\ pc = "wv_read"
    /\ \E e \in Outcomes :
          /\ log' = ReadLog(wv_register, e)
          /\ IF e # NoError
             THEN /\ wv_return(Error_I2c(e))
                  /\ UNCHANGED <<attempt, read_value>>
             ELSE /\ read_value' = ReadNow(wv_register)
                  /\ IF verified(wv_data, ReadNow(wv_register))
                     THEN /\ wv_return(Ok)
                          /\ attempt' = attempt
                     ELSE /\ attempt' = attempt + 1
                          /\ IF retries_exhausted(attempt + 1)
                             THEN wv_return(Error_WriteNotVerified(
                                      wv_register, wv_data, ReadNow(wv_register)))
                             ELSE Goto("wv_write") /\ UNCHANGED wv_result
    /\ UNCHANGED <<dev, op, cfg, status_flags, hib_cfg, status, wv_register,
                   wv_data, wv_from, word, out, acc>>

-----------------------------------------------------------------------------
(* ez_config                                                               *)

\* faulty variant: any status flag counts as a power-on reset
por_detected_any_flag(flags) == ~is_empty(flags)

\* !(status & Status::POR).is_empty() (comms.rs:218-219)
por_detected(flags) == ~is_empty(BitAnd(flags, Status_POR))

\* faulty variant: any F_STAT flag keeps the loop polling
data_not_ready_any_flag(flags) == ~is_empty(flags)

\* !(fstat & FStat::DNR).is_empty() (comms.rs:227)
data_not_ready(flags) == ~is_empty(BitAnd(flags, FStat_DNR))

\* faulty variant: the boundary voltage selects the high-voltage model
model_cfg_word_from_4275(charge_voltage_mv) ==
    IF charge_voltage_mv >= 4275 THEN 33792 ELSE 32768

\* the ModelCFG word of comms.rs:255-259
model_cfg_word(charge_voltage_mv) ==
    IF charge_voltage_mv > 4275 THEN 33792 ELSE 32768

\* faulty variant: the mask also clears bit 0
clear_por_word_fffc(s) == BitAnd(s, 65532)

\* faulty variant: the status word is written back as it was read
clear_por_word_unmasked(s) == s

\* status & 0xFFFD (comms.rs:281, 285)
clear_por_word(s) == BitAnd(s, 65533)

NoConfig ==
    [charge_voltage_mv |-> 0, design_cap_mah |-> 0, i_chg_term_ma |-> 0,
     v_empty_mv |-> <<0, 0>>]

\* what a step that only writes one register leaves alone
WriteFrame ==
    UNCHANGED <<op, cfg, status_flags, hib_cfg, status, wv_register, wv_data,
                attempt, read_value, wv_from, wv_result, word, out, acc>>

ez_config_call ==
    /\ pc = "idle"
    /\ \E c \in Configs : cfg' = c
    /\ op' = "ez_config"
    /\ pc' = "check_por"
    /\ UNCHANGED <<dev, status_flags, hib_cfg, status, wv_register, wv_data,
                   attempt, read_value, result, log, wv_from, wv_result, word, out, acc>>

\* Step 0: let status = self.status_register()?; branch on POR
ez_config_check_por ==
    /\ pc = "check_por"
    /\ \E e \in Outcomes :
          /\ log' = ReadLog(STATUS, e)
          /\ IF e # NoError
             THEN Return(Error_I2c(e)) /\ UNCHANGED status_flags
             ELSE /\ status_flags' = Status_from_bits_truncate(ReadNow(STATUS))
                  /\ Goto(IF por_detected(Status_from_bits_truncate(ReadNow(STATUS)))
                          THEN "wait_dnr" ELSE "clear_por_read")
    /\ UNCHANGED <<dev, op, cfg, hib_cfg, status, wv_register, wv_data, attempt,
                   read_value, wv_from, wv_result, word, out, acc>>

\* faulty variant: the loop gives up after its second poll
ez_config_wait_dnr_giving_up ==
    /\ pc = "wait_dnr"
    /\ \E e \in Outcomes :
          IF e # NoError
          THEN log' = ReadLog(F_STAT, e) /\ Return(Error_I2c(e))
          ELSE IF data_not_ready(FStat_from_bits_truncate(ReadNow(F_STAT)))
               THEN /\ NumDelays(log, 10) < MaxPoll
                    /\ log' = Append(ReadLog(F_STAT, e), DelayEv(10))
                    /\ IF NumDelays(log, 10) >= 1
                       THEN Return([tag |-> "Timeout"])
                       ELSE Goto("wait_dnr")
               ELSE log' = ReadLog(F_STAT, e) /\ Goto("hib_cfg_read")
    /\ UNCHANGED <<dev, op, cfg, status_flags, hib_cfg, status, wv_register,
                   wv_data, attempt, read_value, wv_from, wv_result, word, out, acc>>

\* Step 1: while DNR is set { delay.delay_ms(10) }
ez_config_wait_dnr ==
    /\ pc = "wait_dnr"
    /\ \E e \in Outcomes :
          IF e # NoError
          THEN log' = ReadLog(F_STAT, e) /\ Return(Error_I2c(e))
          ELSE IF data_not_ready(FStat_from_bits_truncate(ReadNow(F_STAT)))
               THEN /\ NumDelays(log, 10) < MaxPoll
                    /\ log' = Append(ReadLog(F_STAT, e), DelayEv(10))
                    /\ Goto("wait_dnr")
               ELSE log' = ReadLog(F_STAT, e) /\ Goto("hib_cfg_read")
    /\ UNCHANGED <<dev, op, cfg, status_flags, hib_cfg, status, wv_register,
                   wv_data, attempt, read_value, wv_from, wv_result, word, out, acc>>

\* Step 2: let hib_cfg = self.hib_cfg_register()?
ez_config_hib_cfg_read ==
    /\ pc = "hib_cfg_read"
    /\ \E e \in Outcomes :
          /\ log' = ReadLog(HIB_CFG, e)
          /\ IF e # NoError
             THEN Return(Error_I2c(e)) /\ UNCHANGED hib_cfg
             ELSE /\ hib_cfg' = HibCfg_from_bytes(to_le_bytes(ReadNow(HIB_CFG)))
                  /\ Goto("soft_wakeup")
    /\ UNCHANGED <<dev, op, cfg, status_flags, status, wv_register, wv_data,
                   attempt, read_value, wv_from, wv_result, word, out, acc>>

\* faulty variant: HIB_CFG is zeroed before the soft-wakeup command
ez_config_soft_wakeup_hib_cfg_first ==
    /\ pc = "soft_wakeup"
    /\ WriteStep(HIB_CFG, 0, "hib_cfg_zero")
    /\ WriteFrame

\* Exit Hibernate Mode step 1
ez_config_soft_wakeup ==
    /\ pc = "soft_wakeup"
    /\ WriteStep(SOFT_WAKEUP, SoftWakeup_SOFT_WAKEUP, "hib_cfg_zero")
    /\ WriteFrame

\* Exit Hibernate Mode step 2
ez_config_hib_cfg_zero ==
    /\ pc = "hib_cfg_zero"
    /\ WriteStep(HIB_CFG, 0, "soft_wakeup_clear")
    /\ WriteFrame

\* Exit Hibernate Mode step 3
ez_config_soft_wakeup_clear ==
    /\ pc = "soft_wakeup_clear"
    /\ WriteStep(SOFT_WAKEUP, SoftWakeup_CLEAR, "design_cap")
    /\ WriteFrame

ez_config_design_cap ==
    /\ pc = "design_cap"
    /\ WriteStep(DESIGN_CAP, cfg.design_cap_mah, "i_chg_term")
    /\ WriteFrame

ez_config_i_chg_term ==
    /\ pc = "i_chg_term"
    /\ WriteStep(I_CHG_TERM, cfg.i_chg_term_ma, "v_empty")
    /\ WriteFrame

ez_config_v_empty ==
    /\ pc = "v_empty"
    /\ WriteStep(V_EMPTY, from_le_bytes(VEmpty_into_bytes(cfg.v_empty_mv)), "model_cfg")
    /\ WriteFrame

\* self.write_register(0xDB, ...)
ez_config_model_cfg ==
    /\ pc = "model_cfg"
    /\ WriteStep(219, model_cfg_word(cfg.charge_voltage_mv), "poll_refresh")
    /\ WriteFrame

\* faulty variant: a failed poll read goes on to restore HIB_CFG
ez_config_poll_refresh_rolling_back ==
    /\ pc = "poll_refresh"
    /\ \E e \in Outcomes :
          IF e # NoError
          THEN log' = ReadLog(MODEL_CFG, e) /\ Goto("restore_hib_cfg")
          ELSE IF ModelCfg_refresh(ModelCfg_from_u16(ReadNow(MODEL_CFG)))
               THEN /\ NumDelays(log, 10) < MaxPoll
                    /\ log' = Append(ReadLog(MODEL_CFG, e), DelayEv(10))
                    /\ Goto("poll_refresh")
               ELSE log' = ReadLog(MODEL_CFG, e) /\ Goto("restore_hib_cfg")
    /\ UNCHANGED <<dev, op, cfg, status_flags, hib_cfg, status, wv_register,
                   wv_data, attempt, read_value, wv_from, wv_result, word, out, acc>>

\* while self.read_register_as_bitfield::<ModelCfg>()?.refresh() { delay.delay_ms(10) }
ez_config_poll_refresh ==
    /\ pc = "poll_refresh"
    /\ \E e \in Outcomes :
          IF e # NoError
          THEN log' = ReadLog(MODEL_CFG, e) /\ Return(Error_I2c(e))
          ELSE IF ModelCfg_refresh(ModelCfg_from_u16(ReadNow(MODEL_CFG)))
               THEN /\ NumDelays(log, 10) < MaxPoll
                    /\ log' = Append(ReadLog(MODEL_CFG, e), DelayEv(10))
                    /\ Goto("poll_refresh")
               ELSE log' = ReadLog(MODEL_CFG, e) /\ Goto("restore_hib_cfg")
    /\ UNCHANGED <<dev, op, cfg, status_flags, hib_cfg, status, wv_register,
                   wv_data, attempt, read_value, wv_from, wv_result, word, out, acc>>

\* self.write_bitfield_to_register(hib_cfg)?
ez_config_restore_hib_cfg ==
    /\ pc = "restore_hib_cfg"
    /\ WriteStep(HIB_CFG, HibCfg_into_u16(hib_cfg), "clear_por_read")
    /\ WriteFrame

\* Step 3: let status = self.read_register_as_u16(Register::STATUS)?
ez_config_clear_por_read ==
    /\ pc = "clear_por_read"
    /\ \E e \in Outcomes :
          /\ log' = ReadLog(STATUS, e)
          /\ IF e # NoError
             THEN Return(Error_I2c(e)) /\ UNCHANGED status
             ELSE status' = ReadNow(STATUS) /\ Goto("clear_por_write")
    /\ UNCHANGED <<dev, op, cfg, status_flags, hib_cfg, wv_register, wv_data,
                   attempt, read_value, wv_from, wv_result, word, out, acc>>

\* self.write_register(Register::STATUS, status & 0xFFFD)?; then enter
\* self.write_and_verify_register(Register::STATUS, status & 0xFFFD, delay)
ez_config_clear_por_write ==
    /\ pc = "clear_por_write"
    /\ WriteStep(STATUS, clear_por_word(status), "wv_write")
    /\ IF pc' = "wv_write"
       THEN /\ wv_register' = STATUS
            /\ wv_data' = clear_por_word(status)
            /\ attempt' = 0
            /\ wv_from' = Len(log')
       ELSE UNCHANGED <<wv_register, wv_data, attempt, wv_from>>
    /\ UNCHANGED <<op, cfg, status_flags, hib_cfg, status, read_value, wv_result,
                   word, out, acc>>

\* faulty variant: a failed diagnostic read is taken as the word 0
ReadStep_ignoring_failure(register, next) ==
    \E e \in Outcomes :
       /\ log' = ReadLog(register, e)
       /\ bcs' = Append(bcs, IF e = NoError THEN ReadNow(register) ELSE 0)
       /\ next

\* battery_charge_status: three reads, each propagating its error
ReadStep(register, next) ==
    \E e \in Outcomes :
       /\ log' = ReadLog(register, e)
       /\ IF e # NoError
          THEN Return(Error_I2c(e)) /\ bcs' = bcs
          ELSE bcs' = Append(bcs, ReadNow(register)) /\ next

BatteryChargeStatus(v) == [rep_cap |-> v[1], rep_soc |-> v[2], tte |-> v[3]]

ReadFrame ==
    UNCHANGED <<dev, op, cfg, status_flags, hib_cfg, status, wv_register,
                wv_data, attempt, read_value, wv_from, wv_result, word, out,
                register_resolver>>

battery_charge_status_rep_cap ==
    /\ pc = "rep_cap"
    /\ ReadStep(REP_CAP, Goto("rep_soc"))
    /\ ReadFrame

battery_charge_status_rep_soc ==
    /\ pc = "rep_soc"
    /\ ReadStep(REP_SOC, Goto("tte"))
    /\ ReadFrame

\* the last read; ez_config then returns Ok(()), a direct call the three words
battery_charge_status_tte ==
    /\ pc = "tte"
    /\ ReadStep(TTE, Return(IF op = "ez_config" THEN Ok
                            ELSE OkValue(BatteryChargeStatus(bcs'))))
    /\ ReadFrame

-----------------------------------------------------------------------------
(* Register resolver of the MAX17263: register word to physical value.     *)
(* A physical value (f64) is the exact fraction <<numerator, denominator>>; *)
(* r_sense is given in milliohms.                                          *)

\* `register as i16`: the word's 16 bits read as two's complement
as_i16(register) == (register % 32768) - 32768 * Bit(register, 15)

\* register as f64 * 5.0e-6 / r_sense (Ah)
register_to_capacity(r_sense, register) == <<register, 200 * r_sense>>
\* register as f64 / 256.0 (%)
register_to_percentage(register) == <<register, 256>>
\* register as f64 * 78.125e-6 (V)
register_to_voltage(register) == <<register, 12800>>
\* (register as i16) as f64 * 1.5625e-6 / r_sense (A)
register_to_current(r_sense, register) == <<as_i16(register), 640 * r_sense>>

\* faulty variant: the word is taken as unsigned
register_to_temperature_unsigned(register) == <<register, 256>>

\* (register as i16) as f64 / 256.0 (degrees C)
register_to_temperature(register) == <<as_i16(register), 256>>
\* register as f64 / 4096.0 (ohms)
register_to_resistance(register) == <<register, 4096>>
\* register as f64 * 5.625 (s)
register_to_time(register) == <<register * 45, 8>>

\* libm::round of the fraction n / d (d > 0): to the nearest integer, halves
\* away from zero
RoundAbs(n, d) == IF 2 * (n % d) >= d THEN (n \div d) + 1 ELSE n \div d
libm_round(n, d) == IF n >= 0 THEN RoundAbs(n, d) ELSE -RoundAbs(-n, d)

\* faulty variant: the cast keeps the low 16 bits
f64_as_u16_wrapping(x) == x % 65536

\* `as u16` of an f64 holding the integer x: saturating
f64_as_u16(x) == IF x < 0 THEN 0 ELSE IF x > 65535 THEN 65535 ELSE x

\* `as i16` of an f64 holding the integer x: saturating
f64_as_i16(x) == IF x < -32768 THEN -32768 ELSE IF x > 32767 THEN 32767 ELSE x

\* faulty variant: a negative count becomes 0
i16_as_u16_clamping(x) == IF x < 0 THEN 0 ELSE x

\* `as u16` of an i16: the same 16 bits
i16_as_u16(x) == IF x < 0 THEN x + 65536 ELSE x

\* libm::round((amp_hours * r_sense) / 5.0e-6) as u16
capacity_to_register(r_sense, amp_hours) ==
    f64_as_u16(libm_round(amp_hours[1] * r_sense * 200, amp_hours[2]))
\* libm::round(percentage * 256.0) as u16
percentage_to_register(percentage) ==
    f64_as_u16(libm_round(percentage[1] * 256, percentage[2]))
\* libm::round(volts / 78.125e-6) as u16
voltage_to_register(volts) ==
    f64_as_u16(libm_round(volts[1] * 12800, volts[2]))
\* libm::round((amps * r_sense) / 1.5625e-6) as i16 as u16
current_to_register(r_sense, amps) ==
    i16_as_u16(f64_as_i16(libm_round(amps[1] * r_sense * 640, amps[2])))
\* libm::round(celsius * 256.0) as i16 as u16
temperature_to_register(celsius) ==
    i16_as_u16(f64_as_i16(libm_round(celsius[1] * 256, celsius[2])))
\* libm::round(ohms * 4096.0) as u16
resistance_to_register(ohms) ==
    f64_as_u16(libm_round(ohms[1] * 4096, ohms[2]))
\* libm::round(seconds / 5.625) as u16
time_to_register(seconds) ==
    f64_as_u16(libm_round(seconds[1] * 8, seconds[2] * 45))

-----------------------------------------------------------------------------
(* Direct calls of the register access layer and the measurement accessors *)

VEmpty_from_bytes(b) == b

\* the hardware's second sample of its output registers
Sample2 ==
    [r \in {V_CELL, CURRENT, TEMP, REP_CAP, REP_SOC, TTE} |->
        CASE r = V_CELL -> 46080
          [] r = CURRENT -> 256
          [] r = TEMP -> 32768
          [] r = REP_CAP -> 1999
          [] r = REP_SOC -> 12700
          [] r = TTE -> 639]

\* the hardware updates its output registers with a new sample
HwMeasure ==
    /\ Observed
    /\ dev[V_CELL] # Sample2[V_CELL]
    /\ dev' = [r \in Registers |->
                  IF r \in DOMAIN Sample2 THEN Sample2[r] ELSE dev[r]]
    /\ UNCHANGED <<drv, word, out, acc>>

\* registers and words of a direct write_register / read_register_as_u16 call
AccessRegisters == {DESIGN_CAP, STATUS}
AccessData == {43981}

\* what an accessor of one transaction leaves alone
AccessFrame ==
    UNCHANGED <<cfg, status_flags, hib_cfg, status, wv_register, wv_data, attempt,
                read_value, wv_from, wv_result, word, out, acc>>

\* pub fn write_register(register, data): one transport write
write_register ==
    /\ pc = "idle"
    /\ op' = "write_register"
    /\ \E register \in AccessRegisters, data \in AccessData, e \in Outcomes :
          /\ i2c_write(write_register_payload(register, data), e)
          /\ log' = Append(log, WriteEv(write_register_payload(register, data), e))
          /\ Return(IF e = NoError THEN Ok ELSE Error_I2c(e))
    /\ AccessFrame

\* faulty variant: a failed read yields the default word 0
AccessorRead_defaulting(register, value, zero) ==
    \E e \in Outcomes :
       /\ log' = ReadLog(register, e)
       /\ Return(IF e = NoError THEN OkValue(value) ELSE OkValue(zero))

\* let register = self.read_register_as_u16(register)?; Ok(value): `value` is
\* the accessor's conversion of the word read now, `zero` that of the word 0
AccessorRead(register, value, zero) ==
    \E e \in Outcomes :
       /\ log' = ReadLog(register, e)
       /\ Return(IF e = NoError THEN OkValue(value) ELSE Error_I2c(e))

\* pub fn read_register_as_u16(register): one write-then-read transaction
read_register_as_u16_call ==
    /\ pc = "idle"
    /\ op' = "read_register_as_u16"
    /\ \E register \in AccessRegisters : AccessorRead(register, ReadNow(register), 0)
    /\ dev' = dev
    /\ AccessFrame

battery_voltage ==
    /\ pc = "idle"
    /\ op' = "battery_voltage"
    /\ AccessorRead(V_CELL, register_to_voltage(ReadNow(V_CELL)),
                    register_to_voltage(0))
    /\ dev' = dev
    /\ AccessFrame

battery_current ==
    /\ pc = "idle"
    /\ op' = "battery_current"
    /\ AccessorRead(CURRENT, register_to_current(register_resolver, ReadNow(CURRENT)),
                    register_to_current(register_resolver, 0))
    /\ dev' = dev
    /\ AccessFrame

battery_temperature ==
    /\ pc = "idle"
    /\ op' = "battery_temperature"
    /\ AccessorRead(TEMP, register_to_temperature(ReadNow(TEMP)),
                    register_to_temperature(0))
    /\ dev' = dev
    /\ AccessFrame

battery_state_of_charge ==
    /\ pc = "idle"
    /\ op' = "battery_state_of_charge"
    /\ AccessorRead(REP_SOC, register_to_percentage(ReadNow(REP_SOC)),
                    register_to_percentage(0))
    /\ dev' = dev
    /\ AccessFrame

status_register ==
    /\ pc = "idle"
    /\ op' = "status_register"
    /\ AccessorRead(STATUS, Status_from_bits_truncate(ReadNow(STATUS)),
                    Status_from_bits_truncate(0))
    /\ dev' = dev
    /\ AccessFrame

fstat_register ==
    /\ pc = "idle"
    /\ op' = "fstat_register"
    /\ AccessorRead(F_STAT, FStat_from_bits_truncate(ReadNow(F_STAT)),
                    FStat_from_bits_truncate(0))
    /\ dev' = dev
    /\ AccessFrame

hib_cfg_register ==
    /\ pc = "idle"
    /\ op' = "hib_cfg_register"
    /\ AccessorRead(HIB_CFG, HibCfg_from_bytes(to_le_bytes(ReadNow(HIB_CFG))),
                    HibCfg_from_bytes(to_le_bytes(0)))
    /\ dev' = dev
    /\ AccessFrame

v_empty_register ==
    /\ pc = "idle"
    /\ op' = "v_empty_register"
    /\ AccessorRead(V_EMPTY, VEmpty_from_bytes(to_le_bytes(ReadNow(V_EMPTY))),
                    VEmpty_from_bytes(to_le_bytes(0)))
    /\ dev' = dev
    /\ AccessFrame

\* a direct call of battery_charge_status; its three reads are the steps
\* battery_charge_status_rep_cap, _rep_soc and _tte
battery_charge_status_call ==
    /\ pc = "idle"
    /\ op' = "battery_charge_status"
    /\ bcs' = <<>>
    /\ pc' = "rep_cap"
    /\ UNCHANGED <<dev, cfg, status_flags, hib_cfg, status, wv_register, wv_data,
                   attempt, read_value, result, log, wv_from, wv_result, word, out,
                   register_resolver>>

\* calls one driver instance serves before the model stops
MaxCalls == 2

ReturnEv(o, r) == [kind |-> "return", op |-> o, result |-> r]
IsReturn(e) == e.kind = "return"
NumCalls(l) == Cardinality({i \in 1 .. Len(l) : IsReturn(l[i])})

\* the caller has the result and the driver is ready for its next call
next_call ==
    /\ pc = "done"
    /\ NumCalls(log) + 1 < MaxCalls
    /\ log' = Append(log, ReturnEv(op, result))
    /\ pc' = "idle"
    /\ op' = "none"
    /\ result' = Pending
    /\ UNCHANGED <<dev, cfg, status_flags, hib_cfg, status, wv_register, wv_data,
                   attempt, read_value, wv_from, wv_result, word, out, acc>>

-----------------------------------------------------------------------------
(* Specification                                                           *)

\* the register file at power-up, for the given STATUS, F_STAT and HIB_CFG words
DevInit(s, f, h) ==
    [r \in Registers |->
        CASE r = STATUS -> s
          [] r = F_STAT -> f
          [] r = HIB_CFG -> h
          [] r = MODEL_CFG -> 33792
          [] r = I_CHG_TERM -> 1600
          [] r = V_EMPTY -> 42337
          [] r = REP_CAP -> 2000
          [] r = REP_SOC -> 12800
          [] r = TTE -> 640
          [] r = V_CELL -> 47360
          [] r = CURRENT -> 65280
          [] r = TEMP -> 6400
          [] OTHER -> 0]

\* Max1726x::new: no call in progress
DrvInit ==
    /\ op = "none"
    /\ cfg = NoConfig
    /\ status_flags = 0
    /\ hib_cfg = <<0, 0>>
    /\ status = 0
    /\ wv_register = 0
    /\ wv_data = 0
    /\ attempt = 0
    /\ read_value = 0
    /\ result = Pending
    /\ log = <<>>
    /\ wv_from = -1
    /\ wv_result = Pending
    /\ bcs = <<>>

\* sense resistors, in milliohms
RSense == {10, 20}

Init ==
    /\ \E s \in StatusInit, f \in FStatInit, h \in HibCfgInit : dev = DevInit(s, f, h)
    /\ DrvInit
    /\ register_resolver = 10
    /\ pc = "idle"
    /\ word = 0
    /\ out = 0

Next ==
    \/ write_and_verify_register_call
    \/ wv_write
    \/ wv_read
    \/ ez_config_call
    \/ ez_config_check_por
    \/ ez_config_wait_dnr
    \/ ez_config_hib_cfg_read
    \/ ez_config_soft_wakeup
    \/ ez_config_hib_cfg_zero
    \/ ez_config_soft_wakeup_clear
    \/ ez_config_design_cap
    \/ ez_config_i_chg_term
    \/ ez_config_v_empty
    \/ ez_config_model_cfg
    \/ ez_config_poll_refresh
    \/ ez_config_restore_hib_cfg
    \/ ez_config_clear_por_read
    \/ ez_config_clear_por_write
    \/ battery_charge_status_rep_cap
    \/ battery_charge_status_rep_soc
    \/ battery_charge_status_tte
    \/ HwSetStatus
    \/ HwDataReady
    \/ HwModelReloaded

Spec == Init /\ [][Next]_vars

-----------------------------------------------------------------------------
(* The pure word operations of ez_config, applied to every 16-bit word     *)

Words == 0 .. 65535

InitWords ==
    /\ dev = [DevInit(65535, 0, 34572) EXCEPT ![MODEL_CFG] = 1024,
                                              ![V_CELL] = Sample2[V_CELL]]
    /\ DrvInit
    /\ register_resolver = 10
    /\ pc = "word"
    /\ word \in Words
    /\ out = 0

\* status & 0xFFFD for the status word `word`
words_clear_por ==
    /\ pc = "word"
    /\ op' = "clear_por_word"
    /\ out' = clear_por_word(word)
    /\ pc' = "word_done"
    /\ UNCHANGED <<dev, cfg, status_flags, hib_cfg, status, wv_register, wv_data,
                   attempt, read_value, result, log, wv_from, wv_result, word, acc>>

\* the ModelCFG word for the charge voltage `word`
words_model_cfg ==
    /\ pc = "word"
    /\ op' = "model_cfg_word"
    /\ out' = model_cfg_word(word)
    /\ pc' = "word_done"
    /\ UNCHANGED <<dev, cfg, status_flags, hib_cfg, status, wv_register, wv_data,
                   attempt, read_value, result, log, wv_from, wv_result, word, acc>>

\* hib_cfg_register's decoding of the HIB_CFG word `word`, re-encoded by
\* write_bitfield_to_register
words_hib_cfg ==
    /\ pc = "word"
    /\ op' = "hib_cfg_word"
    /\ out' = HibCfg_into_u16(HibCfg_from_bytes(to_le_bytes(word)))
    /\ pc' = "word_done"
    /\ UNCHANGED <<dev, cfg, status_flags, hib_cfg, status, wv_register, wv_data,
                   attempt, read_value, result, log, wv_from, wv_result, word, acc>>

\* the V_EMPTY word ez_config writes for a snapshot whose v_empty_mv has
\* vr = the low 7 bits of `word` and ve = its high 9 bits
words_v_empty ==
    /\ pc = "word"
    /\ op' = "v_empty_word"
    /\ LET v_empty_mv == bitfield_set(bitfield_set(<<0, 0>>, 0, 7, word % 128),
                                      7, 9, word \div 128)
       IN  out' = from_le_bytes(VEmpty_into_bytes(v_empty_mv))
    /\ pc' = "word_done"
    /\ UNCHANGED <<dev, cfg, status_flags, hib_cfg, status, wv_register, wv_data,
                   attempt, read_value, result, log, wv_from, wv_result, word, acc>>

\* ModelCfg::from(word) and its four getters
words_model_cfg_fields ==
    /\ pc = "word"
    /\ op' = "model_cfg_fields"
    /\ LET model_cfg == ModelCfg_from_u16(word)
       IN  out' = [model_id |-> bitfield_field("ModelCfg", model_cfg, 3),
                   v_chg |-> bitfield_field("ModelCfg", model_cfg, 5) = 1,
                   r100 |-> bitfield_field("ModelCfg", model_cfg, 7) = 1,
                   refresh |-> ModelCfg_refresh(model_cfg)]
    /\ pc' = "word_done"
    /\ UNCHANGED <<dev, cfg, status_flags, hib_cfg, status, wv_register, wv_data,
                   attempt, read_value, result, log, wv_from, wv_result, word, acc>>

\* values of set_hib_threshold's argument (B4)
Thresholds == 0 .. 15

\* HibCfg::from_bytes of the word's two bytes, its five getters, and the
\* word after set_hib_threshold(v) for each v
words_hib_cfg_fields ==
    /\ pc = "word"
    /\ op' = "hib_cfg_fields"
    /\ LET h == HibCfg_from_bytes(to_le_bytes(word))
       IN  out' = [hib_scalar |-> bitfield_field("HibCfg", h, 1),
                   hib_exit_time |-> bitfield_field("HibCfg", h, 2),
                   hib_threshold |-> bitfield_field("HibCfg", h, 4),
                   hib_enter_time |-> bitfield_field("HibCfg", h, 5),
                   en_hib |-> bitfield_field("HibCfg", h, 6) = 1,
                   set |-> [v \in Thresholds |-> HibCfg_set_hib_threshold(h, v)]]
    /\ pc' = "word_done"
    /\ UNCHANGED <<dev, cfg, status_flags, hib_cfg, status, wv_register, wv_data,
                   attempt, read_value, result, log, wv_from, wv_result, word, acc>>

NextWords ==
    \/ words_clear_por
    \/ words_model_cfg
    \/ words_hib_cfg
    \/ words_v_empty
    \/ words_model_cfg_fields

SpecWords == InitWords /\ [][NextWords]_vars

\* the field getters and setters of the bitfield types, for every word
NextFields ==
    \/ words_hib_cfg_fields
    \/ words_model_cfg_fields

SpecFields == InitWords /\ [][NextFields]_vars

\* direct calls of the access layer and of the measurement accessors, one
\* after the other, on a device whose hardware keeps running
InitAccess ==
    /\ dev = DevInit(32898, 897, 43767)
    /\ DrvInit
    /\ register_resolver = 10
    /\ pc = "idle"
    /\ word = 0
    /\ out = 0

NextAccess ==
    \/ write_register
    \/ read_register_as_u16_call
    \/ battery_voltage
    \/ battery_current
    \/ battery_temperature
    \/ battery_state_of_charge
    \/ status_register
    \/ fstat_register
    \/ hib_cfg_register
    \/ v_empty_register
    \/ battery_charge_status_call
    \/ battery_charge_status_rep_cap
    \/ battery_charge_status_rep_soc
    \/ battery_charge_status_tte
    \/ next_call
    \/ HwMeasure

SpecAccess == InitAccess /\ [][NextAccess]_vars

\* every bitfield type decoded from `word` and encoded again
words_bitfield_round_trip ==
    /\ pc = "word"
    /\ op' = "bitfield_round_trip"
    /\ out' = [t \in BitfieldTypes |->
                  bitfield_into_u16(t, bitfield_from_u16(t, word))]
    /\ pc' = "word_done"
    /\ UNCHANGED <<dev, cfg, status_flags, hib_cfg, status, wv_register, wv_data,
                   attempt, read_value, result, log, wv_from, wv_result, word, acc>>

\* status_register and fstat_register on a register that holds `word`: the
\* device answers with the word's two bytes, LSB first
words_flag_accessors ==
    /\ pc = "word"
    /\ op' = "flag_accessors"
    /\ LET data == <<word % 256, word \div 256>>
       IN  out' = [status |-> Status_from_bits_truncate(read_register_as_u16(data)),
                   fstat |-> FStat_from_bits_truncate(read_register_as_u16(data))]
    /\ pc' = "word_done"
    /\ UNCHANGED <<dev, cfg, status_flags, hib_cfg, status, wv_register, wv_data,
                   attempt, read_value, result, log, wv_from, wv_result, word, acc>>

\* write_register(DESIGN_CAP, word) then read_register_as_u16(DESIGN_CAP), no
\* transaction failing: the device latches the frame's two data bytes and
\* answers the read with the register's two bytes
words_write_then_read ==
    /\ pc = "word"
    /\ op' = "write_then_read"
    /\ LET payload == write_register_payload(DESIGN_CAP, word)
           latched == DevLatch(payload)
           data == <<latched[DESIGN_CAP] % 256, latched[DESIGN_CAP] \div 256>>
       IN  /\ dev' = latched
           /\ log' = <<WriteEv(payload, NoError), ReadEv(DESIGN_CAP, data, NoError)>>
           /\ out' = read_register_as_u16(data)
    /\ pc' = "word_done"
    /\ UNCHANGED <<cfg, status_flags, hib_cfg, status, wv_register, wv_data,
                   attempt, read_value, result, wv_from, wv_result, word, acc>>

NextCodec ==
    \/ words_bitfield_round_trip
    \/ words_flag_accessors
    \/ words_write_then_read

\* the direct calls together with the word-level operations
SpecCodec == (InitAccess \/ InitWords) /\ [][NextAccess \/ NextCodec]_vars

\* the resolver's conversions: `word` is a register word for the forward
\* ones and, for the inverse ones, a physical value counted in half LSB steps
\* of a 10 milliohm resolver
ConvInputs == -66000 .. 132000

InitConv ==
    /\ dev = [DevInit(65535, 0, 34572) EXCEPT ![MODEL_CFG] = 1024,
                                              ![V_CELL] = Sample2[V_CELL]]
    /\ DrvInit
    /\ register_resolver \in RSense
    /\ pc = "conv"
    /\ word \in ConvInputs
    /\ out = 0

ConvFrame ==
    UNCHANGED <<dev, cfg, status_flags, hib_cfg, status, wv_register, wv_data,
                attempt, read_value, result, log, wv_from, wv_result, word, acc>>

\* the seven register_to_* conversions of the register word `word`
conv_register_to_value ==
    /\ pc = "conv"
    /\ word \in Words
    /\ op' = "register_to_value"
    /\ out' = [capacity |-> register_to_capacity(register_resolver, word),
               percentage |-> register_to_percentage(word),
               voltage |-> register_to_voltage(word),
               current |-> register_to_current(register_resolver, word),
               temperature |-> register_to_temperature(word),
               resistance |-> register_to_resistance(word),
               time |-> register_to_time(word)]
    /\ pc' = "conv_done"
    /\ ConvFrame

\* the seven *_to_register conversions of the physical values word / 4000 Ah,
\* word / 512 %, word / 25600 V, word / 12800 A, word / 512 degrees C,
\* word / 8192 ohms and word * 45 / 16 s
conv_value_to_register ==
    /\ pc = "conv"
    /\ op' = "value_to_register"
    /\ out' = [capacity |-> capacity_to_register(register_resolver, <<word, 4000>>),
               percentage |-> percentage_to_register(<<word, 512>>),
               voltage |-> voltage_to_register(<<word, 25600>>),
               current |-> current_to_register(register_resolver, <<word, 12800>>),
               temperature |-> temperature_to_register(<<word, 512>>),
               resistance |-> resistance_to_register(<<word, 8192>>),
               time |-> time_to_register(<<word * 45, 16>>)]
    /\ pc' = "conv_done"
    /\ ConvFrame

\* each register_to_* conversion of the register word `word`, followed by its
\* *_to_register inverse
conv_register_round_trip ==
    /\ pc = "conv"
    /\ word \in Words
    /\ op' = "register_round_trip"
    /\ LET r == register_resolver
       IN  out' = [capacity |-> capacity_to_register(r, register_to_capacity(r, word)),
                   percentage |-> percentage_to_register(register_to_percentage(word)),
                   voltage |-> voltage_to_register(register_to_voltage(word)),
                   current |-> current_to_register(r, register_to_current(r, word)),
                   temperature |-> temperature_to_register(register_to_temperature(word)),
                   resistance |-> resistance_to_register(register_to_resistance(word)),
                   time |-> time_to_register(register_to_time(word))]
    /\ pc' = "conv_done"
    /\ ConvFrame

\* each *_to_register conversion of the physical values of
\* conv_value_to_register, followed by its register_to_* inverse
conv_value_round_trip ==
    /\ pc = "conv"
    /\ op' = "value_round_trip"
    /\ LET r == register_resolver
       IN  out' = [capacity |-> register_to_capacity(r, capacity_to_register(r, <<word, 4000>>)),
                   percentage |-> register_to_percentage(percentage_to_register(<<word, 512>>)),
                   voltage |-> register_to_voltage(voltage_to_register(<<word, 25600>>)),
                   current |-> register_to_current(r, current_to_register(r, <<word, 12800>>)),
                   temperature |->
                       register_to_temperature(temperature_to_register(<<word, 512>>)),
                   resistance |-> register_to_resistance(resistance_to_register(<<word, 8192>>)),
                   time |-> register_to_time(time_to_register(<<word * 45, 16>>))]
    /\ pc' = "conv_done"
    /\ ConvFrame

NextConv ==
    \/ conv_register_to_value
    \/ conv_value_to_register
    \/ conv_register_round_trip
    \/ conv_value_round_trip

SpecConv == InitConv /\ [][NextConv]_vars

\* one transaction of an ez_config call in progress
EzConfigStep ==
    \/ ez_config_check_por
    \/ ez_config_wait_dnr
    \/ ez_config_hib_cfg_read
    \/ ez_config_soft_wakeup
    \/ ez_config_hib_cfg_zero
    \/ ez_config_soft_wakeup_clear
    \/ ez_config_design_cap
    \/ ez_config_i_chg_term
    \/ ez_config_v_empty
    \/ ez_config_model_cfg
    \/ ez_config_poll_refresh
    \/ ez_config_restore_hib_cfg
    \/ ez_config_clear_por_read
    \/ ez_config_clear_por_write
    \/ wv_write
    \/ wv_read
    \/ battery_charge_status_rep_cap
    \/ battery_charge_status_rep_soc
    \/ battery_charge_status_tte

\* the step's transactions all complete, and the device latches each write
FaultlessStep ==
    \A i \in Len(log) + 1 .. Len(log') :
       /\ log'[i].kind # "delay" => log'[i].err = NoError
       /\ log'[i].kind = "write"
             => dev'[log'[i].payload[1]] = log'[i].payload[2] + 256 * log'[i].payload[3]

\* ez_config on a device that answers every transaction and latches every
\* write, while its hardware keeps running
NextLive ==
    \/ ez_config_call
    \/ EzConfigStep /\ FaultlessStep
    \/ HwSetStatus
    \/ HwDataReady
    \/ HwModelReloaded

\* the blocking call runs on; the IC clears DNR and Refresh in the end
SpecLive ==
    /\ Init
    /\ [][NextLive]_vars
    /\ WF_vars(EzConfigStep /\ FaultlessStep)
    /\ WF_vars(HwDataReady)
    /\ WF_vars(HwModelReloaded)

ResetEv == [kind |-> "reset", err |-> NoError]

\* the device loses power between two calls and comes up again: its registers
\* hold their power-up words, POR and DNR set
HwPowerOnReset ==
    /\ pc = "idle"
    /\ Len(log) >= 1
    /\ IsReturn(log[Len(log)])
    /\ dev' = DevInit(32898, 1, 34572)
    /\ log' = Append(log, ResetEv)
    /\ UNCHANGED <<op, pc, cfg, status_flags, hib_cfg, status, wv_register, wv_data,
                   attempt, read_value, result, wv_from, wv_result, word, out, acc>>

\* the device latches each write of the step whose frame completes
LatchedStep ==
    \A i \in Len(log) + 1 .. Len(log') :
       (log'[i].kind = "write" /\ log'[i].err = NoError)
          => dev'[log'[i].payload[1]] = log'[i].payload[2] + 256 * log'[i].payload[3]

\* calls of ez_config one after the other on the same driver and device, each
\* after the one before has returned Ok
NextCycle ==
    \/ ez_config_call
    \/ EzConfigStep /\ LatchedStep
    \/ next_call /\ result = Ok
    \/ HwDataReady
    \/ HwModelReloaded
    \/ HwPowerOnReset

SpecCycle == InitAccess /\ [][NextCycle]_vars

\* the driver's calls together with the word operations
SpecAll == (Init \/ InitWords) /\ [][Next \/ NextWords]_vars

-----------------------------------------------------------------------------
(* Reading the log                                                         *)

IsWrite(e) == e.kind = "write"
IsRead(e) == e.kind = "read"
EvReg(e) ==
    IF e.kind = "write" THEN e.payload[1]
    ELSE IF e.kind = "read" THEN e.register ELSE -1
EvWord(e) ==
    IF e.kind = "write" THEN e.payload[2] + 256 * e.payload[3]
    ELSE IF e.kind = "read" THEN e.data[1] + 256 * e.data[2] ELSE -1
Failed(e) == e.kind # "delay" /\ e.err # NoError
ReadOk(e, register) == e.kind = "read" /\ e.register = register /\ e.err = NoError
WriteTo(e, register) == e.kind = "write" /\ e.payload[1] = register

Writes(l) == SelectSeq(l, IsWrite)
Reads(l) == SelectSeq(l, IsRead)

\* the events write_and_verify_register itself issued: its register's frames
\* and its delays (the reads that follow it in ez_config are of other registers)
WvEntered == wv_from >= 0
WvEvent(e) == e.kind = "delay" \/ EvReg(e) = wv_register
WvOwn == SelectSeq(SubSeq(log, wv_from + 1, Len(log)), WvEvent)
NoFailure(l) == \A i \in 1 .. Len(l) : ~Failed(l[i])
Mismatch(e) == EvWord(e) # wv_data
\* the first n read-backs of `reads` (as many as there are) all mismatch
MismatchesFirst(reads, n) ==
    \A j \in 1 .. n : j <= Len(reads) => Mismatch(reads[j])

-----------------------------------------------------------------------------
(* C1..C4: write_and_verify_register                                       *)

\* C1: write_and_verify_register never issues more than 4 writes or 4
\* read-backs; when no transaction fails and each of 4 read-backs differs from
\* the written word it has returned WriteNotVerified, after exactly 4 writes
\* and 4 read-backs; WriteNotVerified is returned in no other situation, and a
\* call that returns without a failure and without a match returns it.
C1_NotVerifiedAfterFourAttempts ==
    WvEntered =>
        LET own == WvOwn
            writes == Writes(own)
            reads == Reads(own)
            nevermatch == NoFailure(own) /\ MismatchesFirst(reads, 4)
        IN  /\ Len(writes) <= 4
            /\ Len(reads) <= 4
            /\ (nevermatch /\ Len(reads) = 4)
                  => /\ wv_result.tag = "WriteNotVerified"
                     /\ result = wv_result
                     /\ pc = "done"
                     /\ Len(writes) = 4
            /\ wv_result.tag = "WriteNotVerified"
                  => Len(writes) = 4 /\ Len(reads) = 4 /\ nevermatch
            /\ (wv_result # Pending /\ nevermatch)
                  => wv_result.tag = "WriteNotVerified"

C1_Witness ==
    /\ op = "write_and_verify_register"
    /\ pc = "done"
    /\ result.tag = "WriteNotVerified"
    /\ Len(Writes(WvOwn)) = 4
    /\ Len(Reads(WvOwn)) = 4

\* C2: for k in 1..4, when no transaction fails, read-backs 1..k-1 differ from
\* the written word and read-back k equals it, the call has returned Ok with
\* exactly k writes and k read-backs, the matching read-back being its last
\* transaction; and while fewer than 4 read-backs have all mismatched the call
\* has not returned.
C2_OkOnKthAttempt ==
    WvEntered =>
        LET own == WvOwn
            writes == Writes(own)
            reads == Reads(own)
            nofail == NoFailure(own)
        IN  /\ \A k \in 1 .. 4 :
                  (/\ nofail
                   /\ Len(reads) >= k
                   /\ MismatchesFirst(reads, k - 1)
                   /\ ~Mismatch(reads[k]))
                  => /\ wv_result = Ok
                     /\ Len(writes) = k
                     /\ Len(reads) = k
                     /\ IsRead(own[Len(own)])
                     /\ op = "write_and_verify_register"
                           => result = Ok /\ pc = "done" /\ IsRead(log[Len(log)])
            /\ (nofail /\ Len(reads) < 4 /\ MismatchesFirst(reads, 3))
                  => wv_result = Pending /\ pc \in {"wv_write", "wv_read"}

C2_Witness ==
    /\ op = "write_and_verify_register"
    /\ result = Ok
    /\ Len(Writes(WvOwn)) = 4
    /\ MismatchesFirst(Reads(WvOwn), 3)
    /\ ~Mismatch(Reads(WvOwn)[4])

\* C3: a returned WriteNotVerified carries the call's register argument, its
\* data argument, and the word of the 4th (last) read-back, which differs from
\* the data.
C3_NotVerifiedFields ==
    wv_result.tag = "WriteNotVerified" =>
        LET own == WvOwn
            writes == Writes(own)
            reads == Reads(own)
        IN  /\ result = wv_result
            /\ result.register = wv_register
            /\ result.write = wv_data
            /\ Len(reads) = 4
            /\ result.read = EvWord(reads[4])
            /\ result.read = EvWord(log[Len(log)])
            /\ result.read # result.write
            /\ op = "ez_config"
                  => result.register = STATUS /\ result.write = EvWord(log[wv_from])
            /\ \A i \in 1 .. Len(writes) :
                  EvReg(writes[i]) = result.register /\ EvWord(writes[i]) = result.write

C3_Witness ==
    /\ result.tag = "WriteNotVerified"
    /\ result.register = F_STAT
    /\ result.write = 3000
    /\ result.read = 897

\* C4: a failed write or read-back of write_and_verify_register is its last
\* transaction, is returned as Error::I2c with the transport's error (never
\* as WriteNotVerified), and every write after the first directly follows a
\* successful read-back whose word differs from the written one.
C4_TransportFailureNotRetried ==
    WvEntered =>
        LET own == WvOwn
        IN  /\ \A i \in 1 .. Len(own) :
                  Failed(own[i])
                     => /\ i = Len(own)
                        /\ Failed(log[Len(log)])
                        /\ wv_result = [tag |-> "I2c", err |-> own[i].err]
                        /\ result = wv_result
                        /\ pc = "done"
            /\ \A i \in 2 .. Len(own) :
                  IsWrite(own[i])
                     => ReadOk(own[i - 1], wv_register) /\ Mismatch(own[i - 1])
            /\ (Len(own) >= 1 /\ ~Failed(own[Len(own)]))
                  => wv_result.tag # "I2c"

C4_Witness ==
    /\ WvEntered
    /\ Len(Reads(WvOwn)) = 2
    /\ Failed(Reads(WvOwn)[2])
    /\ result.tag = "I2c"
    /\ pc = "done"

-----------------------------------------------------------------------------
(* C5..C10: ez_config                                                      *)

\* the call is ez_config and its first status read succeeded with POR clear / set
EzPorClear ==
    /\ op = "ez_config"
    /\ Len(log) >= 1
    /\ ReadOk(log[1], STATUS)
    /\ Bit(EvWord(log[1]), 1) = 0
EzPorSet ==
    /\ op = "ez_config"
    /\ Len(log) >= 1
    /\ ReadOk(log[1], STATUS)
    /\ Bit(EvWord(log[1]), 1) = 1

\* index in the log of its n-th write (0 when there are fewer)
WriteIndex(n) ==
    LET idx == {i \in 1 .. Len(log) :
                   IsWrite(log[i]) /\ Len(Writes(SubSeq(log, 1, i))) = n}
    IN  IF idx = {} THEN 0 ELSE CHOOSE i \in idx : TRUE

\* index in the log of the first write to STATUS (0 when there is none)
FirstStatusWrite ==
    LET idx == {i \in 1 .. Len(log) : WriteTo(log[i], STATUS)}
    IN  IF idx = {} THEN 0 ELSE CHOOSE i \in idx : \A j \in idx : i <= j

\* C5: when the first status read shows POR clear, ez_config goes straight to
\* Clear-POR: its next transaction is the Clear-POR read of STATUS, followed by
\* a write of STATUS; over the whole call every write is to STATUS (none to
\* SOFT_WAKEUP, HIB_CFG, DESIGN_CAP, I_CHG_TERM, V_EMPTY, MODEL_CFG), F_STAT,
\* HIB_CFG and MODEL_CFG are never read, and no 10 ms poll delay is taken.
C5_PorClearSkipsConfiguration ==
    EzPorClear =>
        /\ Len(log) = 1 => pc = "clear_por_read"
        /\ Len(log) >= 2 => IsRead(log[2]) /\ EvReg(log[2]) = STATUS
        /\ Len(log) >= 3 => WriteTo(log[3], STATUS)
        /\ \A i \in 1 .. Len(log) :
              /\ IsWrite(log[i]) => EvReg(log[i]) = STATUS
              /\ IsRead(log[i]) => EvReg(log[i]) \notin {F_STAT, HIB_CFG, MODEL_CFG}
              /\ log[i] # DelayEv(10)

C5_Witness ==
    /\ EzPorClear
    /\ pc = "done"
    /\ result = Ok
    /\ EvWord(log[1]) = 128

IsModelCfgWrite(e) == WriteTo(e, MODEL_CFG)

\* C7: on the POR-set path ez_config writes MODEL_CFG at most once, exactly
\* once by the time it restores HIB_CFG, and the word is 0x8400 when
\* charge_voltage_mv > 4275 and 0x8000 otherwise; the selection gives 0x8000
\* for 4275, 0x8400 for 4276, and one of the two for every 16-bit charge voltage.
C7_ModelCfgWord ==
    /\ EzPorSet =>
          LET m == SelectSeq(log, IsModelCfgWrite)
          IN  /\ Len(m) <= 1
              /\ Len(Writes(log)) >= 8 => Len(m) = 1
              /\ \A i \in 1 .. Len(m) :
                    /\ EvWord(m[i]) = 33792 <=> cfg.charge_voltage_mv > 4275
                    /\ EvWord(m[i]) = 32768 <=> cfg.charge_voltage_mv <= 4275
    /\ op = "model_cfg_word" =>
          /\ out = 33792 <=> word > 4275
          /\ out = 32768 <=> word <= 4275
          /\ word = 4275 => out = 32768
          /\ word = 4276 => out = 33792

C7_Witness ==
    /\ EzPorSet
    /\ pc = "done"
    /\ result = Ok
    /\ cfg.charge_voltage_mv = 4275
    /\ \E i \in 1 .. Len(log) : WriteTo(log[i], MODEL_CFG) /\ EvWord(log[i]) = 32768

\* w is s with bit 1 cleared and the 15 other bits unchanged
PorBitCleared(s, w) ==
    \A b \in 0 .. 15 : Bit(w, b) = IF b = 1 THEN 0 ELSE Bit(s, b)

\* C8: every word ez_config writes to STATUS is the word of the Clear-POR read
\* (the read directly before the first STATUS write) with bit 1 cleared and the
\* 15 other bits unchanged; the masking does this for every 16-bit status
\* word, and gives 0xFFFD for 0xFFFF.
C8_OnlyPorBitCleared ==
    /\ op = "ez_config" =>
          LET f == FirstStatusWrite
          IN  f > 0 =>
                 /\ ReadOk(log[f - 1], STATUS)
                 /\ status = EvWord(log[f - 1])
                 /\ \A i \in f .. Len(log) :
                       WriteTo(log[i], STATUS)
                          => PorBitCleared(EvWord(log[f - 1]), EvWord(log[i]))
    /\ op = "clear_por_word" =>
          /\ PorBitCleared(word, out)
          /\ word = 65535 => out = 65533

C8_Witness ==
    /\ op = "ez_config"
    /\ FirstStatusWrite > 0
    /\ EvWord(log[FirstStatusWrite - 1]) = 65535
    /\ EvWord(log[FirstStatusWrite]) = 65533
    /\ result = Ok

\* C9: when ez_config has returned Ok, write_and_verify_register returned Ok
\* and the log holds, after the STATUS writes' first, a successful STATUS
\* read-back equal to the written word, whose POR bit is clear; while the
\* device's STATUS still holds that word a read of it shows POR = 0.
C9_OkMeansPorClearObserved ==
    (op = "ez_config" /\ result = Ok) =>
        LET f == FirstStatusWrite
        IN  /\ wv_result = Ok
            /\ f > 0
            /\ \E i \in f + 1 .. Len(log) :
                  /\ ReadOk(log[i], STATUS)
                  /\ EvWord(log[i]) = EvWord(log[f])
                  /\ Bit(EvWord(log[i]), 1) = 0
                  /\ \A j \in i + 1 .. Len(log) : EvReg(log[j]) # STATUS
                  /\ dev[STATUS] = EvWord(log[i]) => Bit(ReadNow(STATUS), 1) = 0
            /\ ~(\A i \in f + 1 .. Len(log) :
                    ReadOk(log[i], STATUS) => Bit(EvWord(log[i]), 1) = 1)

C9_Witness ==
    /\ op = "ez_config"
    /\ result = Ok
    /\ pc = "done"
    /\ \E i \in FirstStatusWrite + 1 .. Len(log) :
          ReadOk(log[i], STATUS) /\ Bit(EvWord(log[i]), 1) = 1

\* C10 (as claimed): in ez_config every completed write to STATUS is directly
\* followed by a 1 ms delay and then a STATUS read-back, before any other
\* write is issued.
C10_StatusWritesAllVerified ==
    op = "ez_config" =>
        \A i \in 1 .. Len(log) :
           (WriteTo(log[i], STATUS) /\ ~Failed(log[i]))
              => /\ i + 1 <= Len(log) => log[i + 1] = DelayEv(1)
                 /\ i + 2 <= Len(log) => ReadOk(log[i + 2], STATUS) \/ Failed(log[i + 2])

-----------------------------------------------------------------------------
(* C11..C14: ez_config, continued                                          *)

SameBits(a, b) == \A i \in 0 .. 15 : Bit(a, i) = Bit(b, i)

\* C11: on the POR-set path the word of ez_config's 8th write, the HIB_CFG
\* restore, equals bit for bit the word of its one HIB_CFG read, reserved bits
\* 5..7 included, and the device's HIB_CFG holds it again once the restore is
\* latched; decoding and re-encoding gives the same word for every 16-bit word.
C11_HibCfgRestoredBitForBit ==
    /\ EzPorSet =>
          LET w == Writes(log)
              hr == {i \in 1 .. Len(log) : ReadOk(log[i], HIB_CFG)}
          IN  /\ Cardinality(hr) <= 1
              /\ Len(w) >= 8
                    => /\ EvReg(w[8]) = HIB_CFG
                       /\ Cardinality(hr) = 1
                       /\ \A i \in hr :
                             /\ i < WriteIndex(8)
                             /\ SameBits(EvWord(w[8]), EvWord(log[i]))
                             /\ EvWord(w[8]) = EvWord(log[i])
                             /\ ~Failed(w[8]) => dev[HIB_CFG] = EvWord(log[i])
    /\ op = "hib_cfg_word" => out = word /\ SameBits(out, word)

C11_Witness ==
    /\ EzPorSet
    /\ Len(Writes(log)) >= 8
    /\ ~Failed(Writes(log)[8])
    /\ dev[HIB_CFG] = 43767
    /\ Bit(EvWord(Writes(log)[8]), 5) = 1
    /\ Bit(EvWord(Writes(log)[8]), 6) = 1
    /\ Bit(EvWord(Writes(log)[8]), 7) = 1

\* C12: in ez_config a failed transaction is the last event of the log (no
\* transaction and no delay follows it), the call has returned, and its result
\* is Error::I2c with that transaction's error; a WriteNotVerified of the
\* verified STATUS write is returned unchanged, the mismatching read-back being
\* the last event; ez_config returns no error in any other situation.
C12_FailureAbortsAtOnce ==
    op = "ez_config" =>
        /\ \A i \in 1 .. Len(log) :
              Failed(log[i])
                 => /\ i = Len(log)
                    /\ pc = "done"
                    /\ result = [tag |-> "I2c", err |-> log[i].err]
        /\ wv_result.tag = "WriteNotVerified"
              => /\ pc = "done"
                 /\ result = wv_result
                 /\ ReadOk(log[Len(log)], STATUS)
                 /\ EvWord(log[Len(log)]) = result.read
        /\ wv_result.tag = "I2c" => result = wv_result /\ pc = "done"
        /\ result.tag = "I2c" => Failed(log[Len(log)])
        /\ result.tag = "WriteNotVerified" => result = wv_result
        /\ result # Pending => pc = "done"

C12_Witness ==
    /\ op = "ez_config"
    /\ pc = "done"
    /\ result = [tag |-> "I2c", err |-> "Bus"]
    /\ Len(Writes(log)) = 8
    /\ Failed(log[Len(log)])
    /\ WriteTo(log[Len(log)], HIB_CFG)

\* index in the log of the first successful F_STAT read with DNR (bit 0) clear,
\* Len(log) + 1 when there is none yet
FirstDataReady ==
    LET idx == {i \in 1 .. Len(log) :
                   ReadOk(log[i], F_STAT) /\ Bit(EvWord(log[i]), 0) = 0}
    IN  IF idx = {} THEN Len(log) + 1 ELSE CHOOSE i \in idx : \A j \in idx : i <= j

\* C13: on the POR-set path no write is issued before a successful F_STAT read
\* with DNR clear; up to that read the log after the status read alternates
\* F_STAT reads (DNR set, or failed) with 10 ms delays, one delay after each
\* read with DNR set whatever its other bits are; the read with DNR clear is
\* followed by the HIB_CFG read, never by a delay, whatever its other bits are.
C13_NoWriteBeforeDataReady ==
    EzPorSet =>
        LET k == FirstDataReady
        IN  /\ \A i \in 1 .. Len(log) : IsWrite(log[i]) => i > k
            /\ \A i \in 2 .. Len(log) :
                  i < k =>
                     IF i % 2 = 0
                     THEN /\ IsRead(log[i]) /\ EvReg(log[i]) = F_STAT
                          /\ ~Failed(log[i])
                                => /\ Bit(EvWord(log[i]), 0) = 1
                                   /\ i + 1 <= Len(log)
                                   /\ log[i + 1] = DelayEv(10)
                     ELSE /\ log[i] = DelayEv(10)
                          /\ ReadOk(log[i - 1], F_STAT)
            /\ k <= Len(log) => k % 2 = 0
            /\ k < Len(log) => IsRead(log[k + 1]) /\ EvReg(log[k + 1]) = HIB_CFG
            /\ k = Len(log) => pc = "hib_cfg_read"
            /\ (k > Len(log) /\ pc # "done") => pc = "wait_dnr"

\* two polls with DNR and other flags set, then DNR clear with the other
\* flags still set, then the first write
C13_Witness ==
    /\ EzPorSet
    /\ Len(log) >= 8
    /\ ReadOk(log[2], F_STAT) /\ EvWord(log[2]) = 897
    /\ log[3] = DelayEv(10)
    /\ ReadOk(log[4], F_STAT) /\ EvWord(log[4]) = 897
    /\ ReadOk(log[6], F_STAT) /\ EvWord(log[6]) = 896
    /\ WriteTo(log[8], SOFT_WAKEUP)

\* the successful reads of `register` in the log all show bit `b` set
AllReadsSet(register, b) ==
    \A i \in 1 .. Len(log) : ReadOk(log[i], register) => Bit(EvWord(log[i]), b) = 1

NumReads(register) == Cardinality({i \in 1 .. Len(log) : ReadOk(log[i], register)})

\* C14: on the POR-set path, while no transaction has failed and every F_STAT
\* read so far showed DNR set, ez_config is still in its first polling loop
\* and has returned nothing, however many polls it has made; likewise, once
\* MODEL_CFG is written, while every MODEL_CFG read so far showed Refresh set
\* it is still in its second polling loop and has returned nothing; each such
\* read was followed by one 10 ms delay.
C14_PollingLoopsHaveNoTimeout ==
    (EzPorSet /\ NoFailure(log)) =>
        LET nf == NumReads(F_STAT)
            nm == NumReads(MODEL_CFG)
            written == \E i \in 1 .. Len(log) : WriteTo(log[i], MODEL_CFG)
        IN  /\ AllReadsSet(F_STAT, 0)
              => /\ pc = "wait_dnr"
                 /\ result = Pending
                 /\ NumDelays(log, 10) = nf
                 /\ Len(log) = 1 + 2 * nf
            /\ (written /\ AllReadsSet(MODEL_CFG, 15))
              => /\ pc = "poll_refresh"
                 /\ result = Pending
                 /\ NumDelays(log, 10) = nf - 1 + nm
                 /\ nm >= 1 => log[Len(log)] = DelayEv(10)

\* both loops have polled and the call is still waiting in the second one
C14_Witness ==
    /\ EzPorSet
    /\ NoFailure(log)
    /\ pc = "poll_refresh"
    /\ result = Pending
    /\ NumReads(F_STAT) >= 2
    /\ NumReads(MODEL_CFG) >= 1
    /\ AllReadsSet(MODEL_CFG, 15)
    /\ log[Len(log)] = DelayEv(10)

-----------------------------------------------------------------------------
(* C15..C17: register words, bitfields and flags                           *)

RECURSIVE LayoutBits(_, _)
LayoutBits(layout, k) ==
    IF k > Len(layout) THEN 0 ELSE layout[k].bits + LayoutBits(layout, k + 1)

StatusFlagBits == {1, 2, 3} \cup (6 .. 15)
FStatFlagBits == {0, 6, 7, 8, 9}

\* v is w with the bits outside `named` cleared
NamedBitsOnly(v, w, named) ==
    \A b \in 0 .. 15 : Bit(v, b) = IF b \in named THEN Bit(w, b) ELSE 0

\* C16 (as claimed): the value status_register (fstat_register) returns has
\* raw bits equal to the word the STATUS (F_STAT) register holds, bits that
\* name no flag included.
C16_AccessorsKeepRawBits ==
    /\ (op = "status_register" /\ result.tag = "Ok") => result.value = dev[STATUS]
    /\ (op = "fstat_register" /\ result.tag = "Ok") => result.value = dev[F_STAT]

\* C16 (amended): the value status_register (fstat_register) returns is the
\* register's word with every bit that names a flag unchanged and every bit
\* that names no flag (STATUS bits 0, 4, 5; F_STAT bits 1..5, 10..15) cleared,
\* for every 16-bit word the register holds.
C16_AccessorsKeepNamedFlags ==
    /\ op = "flag_accessors"
          => /\ NamedBitsOnly(out.status, word, StatusFlagBits)
             /\ NamedBitsOnly(out.fstat, word, FStatFlagBits)
    /\ (op = "status_register" /\ result.tag = "Ok")
          => /\ NamedBitsOnly(result.value, dev[STATUS], StatusFlagBits)
             /\ ReadOk(log[Len(log)], STATUS)
             /\ EvWord(log[Len(log)]) = dev[STATUS]
    /\ (op = "fstat_register" /\ result.tag = "Ok")
          => /\ NamedBitsOnly(result.value, dev[F_STAT], FStatFlagBits)
             /\ ReadOk(log[Len(log)], F_STAT)
             /\ EvWord(log[Len(log)]) = dev[F_STAT]

\* status_register on a device whose STATUS holds 0xABCD returns 0xABCC
C16_Witness ==
    /\ op = "status_register"
    /\ dev[STATUS] = 43981
    /\ result = [tag |-> "Ok", value |-> 43980]

\* the events of the call in progress or just returned: those after the last
\* return
CallStart ==
    LET idx == {i \in 1 .. Len(log) : IsReturn(log[i])}
    IN  IF idx = {} THEN 0 ELSE CHOOSE i \in idx : \A j \in idx : j <= i
CallLog == SubSeq(log, CallStart + 1, Len(log))

IsByte(b) == b \in 0 .. 255

\* C17: a returned write_register(addr, w) has issued exactly one transport
\* write, of the 3 bytes [addr, w mod 256, w div 256]; a returned
\* read_register_as_u16 has issued exactly one write-then-read transaction (the
\* register address out, 2 bytes in) and on success returns byte0 + 256*byte1;
\* a read_register_as_u16 that directly follows a successful write_register of
\* w to the same register, on a device that latched it, returns w; for every
\* 16-bit w the frame is [addr, w mod 256, w div 256] and the read returns w.
C17_LittleEndianFrames ==
    /\ (op = "write_register" /\ pc = "done")
          => LET c == CallLog
             IN  /\ Len(c) = 1
                 /\ IsWrite(c[1])
                 /\ Len(c[1].payload) = 3
                 /\ c[1].payload[1] \in AccessRegisters
                 /\ \E w \in AccessData :
                       c[1].payload = <<c[1].payload[1], w % 256, w \div 256>>
                 /\ result = IF Failed(c[1]) THEN [tag |-> "I2c", err |-> c[1].err]
                                             ELSE Ok
    /\ (op = "read_register_as_u16" /\ pc = "done")
          => LET c == CallLog
                 s == CallStart
             IN  /\ Len(c) = 1
                 /\ IsRead(c[1])
                 /\ Len(c[1].data) = 2
                 /\ ~Failed(c[1])
                       => /\ result = OkValue(c[1].data[1] + 256 * c[1].data[2])
                          /\ result.value = dev[c[1].register]
                 /\ (/\ ~Failed(c[1])
                     /\ s >= 2
                     /\ log[s].op = "write_register"
                     /\ log[s].result = Ok
                     /\ EvReg(log[s - 1]) = c[1].register
                     /\ dev[c[1].register] = EvWord(log[s - 1]))
                       => result.value = EvWord(log[s - 1])
    /\ op = "write_then_read"
          => /\ Len(log) = 2
             /\ log[1].payload = <<DESIGN_CAP, word % 256, word \div 256>>
             /\ \A i \in 1 .. 3 : IsByte(log[1].payload[i])
             /\ log[2].register = DESIGN_CAP
             /\ Len(log[2].data) = 2
             /\ log[2].data = <<log[1].payload[2], log[1].payload[3]>>
             /\ out = log[2].data[1] + 256 * log[2].data[2]
             /\ out = word

C17_Witness ==
    /\ op = "read_register_as_u16"
    /\ result = OkValue(43981)
    /\ CallStart = 2
    /\ log[1] = WriteEv(<<DESIGN_CAP, 205, 171>>, NoError)
    /\ log[3] = ReadEv(DESIGN_CAP, <<205, 171>>, NoError)

-----------------------------------------------------------------------------
(* C18: the measurement accessors                                          *)

\* the register each one-read accessor reads
AccessorRegister ==
    [o \in {"battery_voltage", "battery_current", "battery_temperature",
            "battery_state_of_charge", "status_register", "fstat_register",
            "hib_cfg_register", "v_empty_register"} |->
        CASE o = "battery_voltage" -> 9
          [] o = "battery_current" -> 10
          [] o = "battery_temperature" -> 8
          [] o = "battery_state_of_charge" -> 6
          [] o = "status_register" -> 0
          [] o = "fstat_register" -> 61
          [] o = "hib_cfg_register" -> 186
          [] o = "v_empty_register" -> 58]

\* the value each accessor returns for the register word w
AccessorValue(o, w) ==
    CASE o = "battery_voltage" -> register_to_voltage(w)
      [] o = "battery_current" -> register_to_current(register_resolver, w)
      [] o = "battery_temperature" -> register_to_temperature(w)
      [] o = "battery_state_of_charge" -> register_to_percentage(w)
      [] o = "status_register" -> Status_from_bits_truncate(w)
      [] o = "fstat_register" -> FStat_from_bits_truncate(w)
      [] o = "hib_cfg_register" -> to_le_bytes(w)
      [] o = "v_empty_register" -> to_le_bytes(w)

\* a one-read accessor's call: its one event `e` and the result `r` it returned
OneFreshRead(o, e, r) ==
    /\ IsRead(e)
    /\ e.register = AccessorRegister[o]
    /\ r = IF Failed(e) THEN [tag |-> "I2c", err |-> e.err]
                        ELSE OkValue(AccessorValue(o, EvWord(e)))

\* C18: a returned one-read accessor has issued exactly one transaction, a read
\* of its register (0x09, 0x0A, 0x08, 0x06, 0x00, 0x3D, 0xBA, 0x3A), whose word
\* is the device's at that call, and its result is the conversion of that
\* word; battery_charge_status reads REP_CAP, REP_SOC, TTE in this order and
\* returns the three words; no accessor issues a write or changes a register;
\* every earlier call returned the value of its own read, so two successive
\* calls return the device's value at each call; a failed read makes the
\* call return Error::I2c at once, never a value.
C18_AccessorsReadFresh ==
    LET c == CallLog
    IN  /\ (op \in DOMAIN AccessorRegister /\ pc = "done")
              => /\ Len(c) = 1
                 /\ OneFreshRead(op, c[1], result)
                 /\ ~Failed(c[1])
                       => /\ EvWord(c[1]) = dev[AccessorRegister[op]]
                          /\ result.value = AccessorValue(op, dev[AccessorRegister[op]])
        /\ op = "battery_charge_status"
              => /\ Len(c) <= 3
                 /\ \A i \in 1 .. Len(c) :
                       /\ IsRead(c[i])
                       /\ c[i].register = <<5, 6, 17>>[i]
                       /\ Failed(c[i])
                             => /\ i = Len(c)
                                /\ pc = "done"
                                /\ result = [tag |-> "I2c", err |-> c[i].err]
                 /\ pc = "done" => Len(c) >= 1
                 /\ (Len(c) = 3 /\ ~Failed(c[3]))
                       => /\ pc = "done"
                          /\ result = OkValue([rep_cap |-> EvWord(c[1]),
                                                rep_soc |-> EvWord(c[2]),
                                                tte |-> EvWord(c[3])])
                          /\ result.value.tte = dev[TTE]
                 /\ result.tag = "Ok" => Len(c) = 3
        /\ \A i \in 1 .. Len(log) :
              /\ (IsReturn(log[i]) /\ log[i].op \in DOMAIN AccessorRegister)
                    => /\ i >= 2
                       /\ i >= 3 => IsReturn(log[i - 2])
                       /\ OneFreshRead(log[i].op, log[i - 1], log[i].result)
              /\ IsWrite(log[i])
                    => IF i = Len(log) THEN op = "write_register"
                       ELSE IsReturn(log[i + 1]) /\ log[i + 1].op = "write_register"

\* two successive battery_temperature calls: 25 degrees C, then -128 degrees C
\* once the hardware has taken its next sample
C18_Witness ==
    /\ op = "battery_temperature"
    /\ pc = "done"
    /\ Len(log) = 3
    /\ log[2] = ReturnEv("battery_temperature", OkValue(<<6400, 256>>))
    /\ result = OkValue(<<-32768, 256>>)
    /\ dev[TEMP] = 32768

-----------------------------------------------------------------------------
(* C19, C20: the register resolver                                         *)

\* the fractions a and b are the same number
RatEq(a, b) == a[1] * b[2] = b[1] * a[2]

\* C19: for every register word r the signed conversions read r as 16-bit
\* two's complement: register_to_temperature(r) * 256 and
\* register_to_current(r) * r_sense / 1.5625e-6 equal r when r < 0x8000 and
\* r - 65536 otherwise, 0x8000 gives exactly -128.0 degrees C and 0x7FFF gives
\* 32767/256 degrees C; capacity, percentage, voltage, resistance and time are
\* r times the LSB step (5e-6 / r_sense Ah, 1/256 %, 78.125e-6 = 1/12800 V,
\* 1/4096 ohm, 5.625 = 225/40 s), never negative.
C19_SignedAndUnsignedConversions ==
    op = "register_to_value" =>
        LET signed == IF word < 32768 THEN word ELSE word - 65536
            r == register_resolver
        IN  /\ out.temperature[2] > 0 /\ out.current[2] > 0
            /\ out.temperature[1] * 256 = signed * out.temperature[2]
            /\ out.current[1] * 640 * r = signed * out.current[2]
            /\ word = 32768 => RatEq(out.temperature, <<-128, 1>>)
            /\ word = 32767 => RatEq(out.temperature, <<32767, 256>>)
            /\ RatEq(out.capacity, <<word, 200 * r>>)
            /\ RatEq(out.percentage, <<word, 256>>)
            /\ RatEq(out.voltage, <<word, 12800>>)
            /\ RatEq(out.resistance, <<word, 4096>>)
            /\ RatEq(out.time, <<word * 225, 40>>)
            /\ \A c \in {"capacity", "percentage", "voltage", "resistance", "time"} :
                  out[c][1] >= 0 /\ out[c][2] > 0

C19_Witness ==
    /\ op = "register_to_value"
    /\ word = 32768
    /\ RatEq(out.temperature, <<-128, 1>>)
    /\ RatEq(out.current, <<-512, 100>>)
    /\ RatEq(out.voltage, <<256, 100>>)

\* the rounded LSB count of the value `word` half steps of a 10 milliohm
\* resolver: halves away from zero; capacity and current scale with r_sense
RoundedCount(category) ==
    LET halves == IF category \in {"capacity", "current"}
                  THEN word * (register_resolver \div 10) ELSE word
    IN  IF halves >= 0 THEN (halves + 1) \div 2 ELSE -((1 - halves) \div 2)

\* C20: the inverse conversions clamp: for capacity, percentage, voltage,
\* resistance and time a rounded LSB count above 65535 gives 0xFFFF, one below
\* 0 gives 0x0000 and one in range gives the count; for current and
\* temperature a count above 32767 gives 0x7FFF, one below -32768 gives 0x8000
\* and one in range gives its 16-bit two's complement.
C20_InverseConversionsClamp ==
    op = "value_to_register" =>
        /\ \A c \in {"capacity", "percentage", "voltage", "resistance", "time"} :
              LET k == RoundedCount(c)
              IN  out[c] = IF k > 65535 THEN 65535 ELSE IF k < 0 THEN 0 ELSE k
        /\ \A c \in {"current", "temperature"} :
              LET k == RoundedCount(c)
              IN  out[c] = IF k > 32767 THEN 32767
                           ELSE IF k < -32768 THEN 32768
                           ELSE IF k < 0 THEN k + 65536 ELSE k

\* a value one LSB above the unsigned range, which wrapping would turn into 0
C20_Witness ==
    /\ op = "value_to_register"
    /\ register_resolver = 10
    /\ word = 131072
    /\ RoundedCount("voltage") = 65536
    /\ out.voltage = 65535
    /\ out.capacity = 65535
    /\ out.temperature = 32767

-----------------------------------------------------------------------------
(* C21: the resolver's round trips                                         *)

Categories ==
    {"capacity", "percentage", "voltage", "current", "temperature", "resistance", "time"}
SignedCategories == {"current", "temperature"}

\* the physical value `word` of conv_value_to_register, counted in half LSB
\* steps of `category` for the resolver in use
HalfSteps(category) ==
    IF category \in {"capacity", "current"}
    THEN word * (register_resolver \div 10) ELSE word

\* the value lies inside the range its register can hold
Representable(category) ==
    IF category \in SignedCategories
    THEN HalfSteps(category) \in -65536 .. 65534
    ELSE HalfSteps(category) \in 0 .. 131070

\* the fraction v counted in half LSB steps of `category`
InHalfSteps(category, v) ==
    CASE category = "capacity" -> (v[1] * 400 * register_resolver) \div v[2]
      [] category = "percentage" -> (v[1] * 512) \div v[2]
      [] category = "voltage" -> (v[1] * 25600) \div v[2]
      [] category = "current" -> (v[1] * 1280 * register_resolver) \div v[2]
      [] category = "temperature" -> (v[1] * 512) \div v[2]
      [] category = "resistance" -> (v[1] * 8192) \div v[2]
      [] category = "time" -> (v[1] * 16) \div (v[2] * 45)

\* C21: for each of the seven categories and every physical value inside the
\* range of its register, converting to a register word and back gives a
\* value that differs from it by at most one LSB step (in fact half a step);
\* for every register word, converting to a physical value and back gives the
\* word again.
C21_ConversionsRoundTrip ==
    /\ op = "register_round_trip" => \A c \in Categories : out[c] = word
    /\ op = "value_round_trip" =>
          \A c \in Categories :
             Representable(c) =>
                LET back == InHalfSteps(c, out[c])
                    d == back - HalfSteps(c)
                IN  /\ d \in -2 .. 2
                    /\ d \in -1 .. 1
                    /\ back % 2 = 0

\* a negative value half a step off a register word comes back half a step
\* further from zero, through the two's complement word 0xFFF3
C21_Witness ==
    /\ op = "value_round_trip"
    /\ register_resolver = 10
    /\ word = -25
    /\ Representable("temperature")
    /\ temperature_to_register(<<word, 512>>) = 65523
    /\ out.temperature = <<-13, 256>>
    /\ out.current = <<-13, 6400>>

-----------------------------------------------------------------------------
(* C22..C24: ez_config's configuration writes                              *)

NumWritesTo(register) ==
    Cardinality({i \in 1 .. Len(log) : WriteTo(log[i], register)})

\* C22: on the POR-set path the 4th, 5th and 6th write of ez_config are to
\* DESIGN_CAP, I_CHG_TERM and V_EMPTY and carry the snapshot's design_cap_mah,
\* its i_chg_term_ma and vr + 128 * ve of its v_empty_mv, unchanged; each of
\* the three registers is written at most once, exactly once by the time
\* MODEL_CFG is written, and the device then holds these words; the V_EMPTY
\* word has vr in bits 0..6 and ve in bits 7..15 for every vr and ve.
C22_ConfigWordsVerbatim ==
    /\ EzPorSet =>
          LET w == Writes(log)
              vr == bitfield_get(cfg.v_empty_mv, 0, 7)
              ve == bitfield_get(cfg.v_empty_mv, 7, 9)
          IN  /\ \A r \in {DESIGN_CAP, I_CHG_TERM, V_EMPTY} :
                    /\ NumWritesTo(r) <= 1
                    /\ Len(w) >= 7 => NumWritesTo(r) = 1
              /\ Len(w) >= 4
                    => w[4].payload = <<DESIGN_CAP, cfg.design_cap_mah % 256,
                                        cfg.design_cap_mah \div 256>>
              /\ Len(w) >= 5
                    => /\ w[5].payload = <<I_CHG_TERM, cfg.i_chg_term_ma % 256,
                                           cfg.i_chg_term_ma \div 256>>
                       /\ dev[DESIGN_CAP] = cfg.design_cap_mah
              /\ Len(w) >= 6
                    => /\ EvReg(w[6]) = V_EMPTY
                       /\ EvWord(w[6]) = vr + 128 * ve
                       /\ dev[I_CHG_TERM] = cfg.i_chg_term_ma
              /\ Len(w) >= 7 => dev[V_EMPTY] = vr + 128 * ve
    /\ op = "v_empty_word" =>
          /\ out = (word % 128) + 128 * (word \div 128)
          /\ \A b \in 0 .. 6 : Bit(out, b) = Bit(word % 128, b)
          /\ \A b \in 0 .. 8 : Bit(out, b + 7) = Bit(word \div 128, b)

\* the three words are on the device: 3000 (power-up value 0), 256 (power-up
\* value 1600) and 0xA561 (vr = 97, ve = 330)
C22_Witness ==
    /\ EzPorSet
    /\ Len(Writes(log)) >= 7
    /\ cfg.design_cap_mah = 3000
    /\ dev[DESIGN_CAP] = 3000
    /\ dev[I_CHG_TERM] = 256
    /\ dev[V_EMPTY] = 97 + 128 * 330
    /\ EvWord(Writes(log)[6]) = 42337

\* C23: on the POR-set path the first MODEL_CFG read directly follows the one
\* MODEL_CFG write; a successful MODEL_CFG read with bit 15 set is followed by
\* one 10 ms delay and then another MODEL_CFG read, whatever its other bits
\* are; one with bit 15 clear ends the loop, the next transaction being the
\* HIB_CFG restore, whatever its other bits are; MODEL_CFG is never written a
\* second time; for every 16-bit word the loop's condition is the word's
\* bit 15.
C23_RefreshPollReadsBit15 ==
    /\ EzPorSet =>
          /\ NumWritesTo(MODEL_CFG) <= 1
          /\ \A i \in 1 .. Len(log) :
                (IsRead(log[i]) /\ EvReg(log[i]) = MODEL_CFG)
                   => /\ i >= 2
                      /\ \/ WriteTo(log[i - 1], MODEL_CFG) /\ ~Failed(log[i - 1])
                         \/ /\ log[i - 1] = DelayEv(10)
                            /\ ReadOk(log[i - 2], MODEL_CFG)
                            /\ Bit(EvWord(log[i - 2]), 15) = 1
                      /\ (~Failed(log[i]) /\ Bit(EvWord(log[i]), 15) = 1)
                            => /\ i + 1 <= Len(log)
                               /\ log[i + 1] = DelayEv(10)
                               /\ i + 1 = Len(log) => pc = "poll_refresh"
                               /\ i + 2 <= Len(log)
                                     => IsRead(log[i + 2]) /\ EvReg(log[i + 2]) = MODEL_CFG
                      /\ (~Failed(log[i]) /\ Bit(EvWord(log[i]), 15) = 0)
                            => /\ i = Len(log) => pc = "restore_hib_cfg"
                               /\ i + 1 <= Len(log) => WriteTo(log[i + 1], HIB_CFG)
    /\ op = "model_cfg_fields" => (out.refresh <=> Bit(word, 15) = 1)

\* a poll that read 0x8400, waited, read 0x0400 (Refresh clear, VChg still
\* set) and went on to the HIB_CFG restore
C23_Witness ==
    /\ EzPorSet
    /\ \E i \in 1 .. Len(log) - 3 :
          /\ ReadOk(log[i], MODEL_CFG) /\ EvWord(log[i]) = 33792
          /\ log[i + 1] = DelayEv(10)
          /\ ReadOk(log[i + 2], MODEL_CFG) /\ EvWord(log[i + 2]) = 1024
          /\ WriteTo(log[i + 3], HIB_CFG)

\* C24: on the POR-set path, once the write of 0 to HIB_CFG has completed and
\* until the restore write is issued, the device's HIB_CFG holds 0 and
\* HIB_CFG has been written once; a transaction that fails in this stretch
\* (the command clear, DESIGN_CAP, I_CHG_TERM, V_EMPTY or MODEL_CFG write, or a
\* MODEL_CFG poll read) is the call's last event: ez_config has returned its
\* error and the device's HIB_CFG is left at 0, not at the saved word.
C24_NoRollbackOfHibCfg ==
    LET w == Writes(log)
    IN  (EzPorSet /\ Len(w) >= 2 /\ Len(w) <= 7 /\ ~Failed(w[2])) =>
           /\ dev[HIB_CFG] = 0
           /\ NumWritesTo(HIB_CFG) = 1
           /\ \A i \in WriteIndex(2) + 1 .. Len(log) :
                 Failed(log[i])
                    => /\ i = Len(log)
                       /\ pc = "done"
                       /\ result = [tag |-> "I2c", err |-> log[i].err]
                       /\ \/ /\ IsWrite(log[i])
                             /\ EvReg(log[i]) \in {SOFT_WAKEUP, DESIGN_CAP, I_CHG_TERM,
                                                    V_EMPTY, MODEL_CFG}
                          \/ IsRead(log[i]) /\ EvReg(log[i]) = MODEL_CFG
           /\ pc = "done" => Failed(log[Len(log)]) /\ result.tag = "I2c"

\* the saved word was 0xAAF7, a MODEL_CFG poll read failed, and the call has
\* returned with the device's HIB_CFG still 0
C24_Witness ==
    /\ EzPorSet
    /\ pc = "done"
    /\ result = [tag |-> "I2c", err |-> "NoAcknowledge"]
    /\ IsRead(log[Len(log)]) /\ EvReg(log[Len(log)]) = MODEL_CFG
    /\ HibCfg_into_u16(hib_cfg) = 43767
    /\ dev[HIB_CFG] = 0
    /\ NumWritesTo(HIB_CFG) = 1

-----------------------------------------------------------------------------
(* C25: Clear-POR against hardware that raises status flags                *)

\* the step issues a write frame to STATUS
WritesStatusNow ==
    \E i \in Len(log) + 1 .. Len(log') : WriteTo(log'[i], STATUS)

\* C25 (as claimed): no STATUS write issued by ez_config changes a non-POR
\* bit of the device's status register from the value the device holds
\* immediately before that write: a flag the hardware raised after the
\* Clear-POR read is not cleared by the write.
C25_StatusWritesChangeOnlyPor ==
    [][(op = "ez_config" /\ WritesStatusNow)
          => \A b \in (0 .. 15) \ {1} : Bit(dev'[STATUS], b) = Bit(dev[STATUS], b)]_vars

-----------------------------------------------------------------------------
(* C26, C27: the fields of HibCfg and ModelCfg                             *)

\* the number held by bits lo..hi of w
BitsOf(w, lo, hi) == (w \div Pow2(lo)) % Pow2(hi - lo + 1)

\* C26: for every 16-bit word w, HibCfg decoded from w has hib_scalar = bits
\* 0..2, hib_exit_time = bits 3..4, hib_threshold = bits 8..11,
\* hib_enter_time = bits 12..14 and en_hib = bit 15 of w; 0xAA17 decodes to
\* scalar 7, exit time 2, threshold 10, enter time 2, en_hib true; and after
\* set_hib_threshold(v), v in 0..15, hib_threshold reads v and every other bit
\* of the word is unchanged.
C26_HibCfgFields ==
    op = "hib_cfg_fields" =>
        /\ out.hib_scalar = BitsOf(word, 0, 2)
        /\ out.hib_exit_time = BitsOf(word, 3, 4)
        /\ out.hib_threshold = BitsOf(word, 8, 11)
        /\ out.hib_enter_time = BitsOf(word, 12, 14)
        /\ out.en_hib <=> Bit(word, 15) = 1
        /\ word = 43543
              => /\ out.hib_scalar = 7
                 /\ out.hib_exit_time = 2
                 /\ out.hib_threshold = 10
                 /\ out.hib_enter_time = 2
                 /\ out.en_hib
        /\ \A v \in Thresholds :
              LET w2 == HibCfg_into_u16(out.set[v])
              IN  /\ bitfield_field("HibCfg", out.set[v], 4) = v
                  /\ BitsOf(w2, 8, 11) = v
                  /\ \A b \in (0 .. 7) \cup (12 .. 15) : Bit(w2, b) = Bit(word, b)

\* 0xAA17, whose threshold 10 becomes 4 (0xA417) with the reserved bits and
\* the four other fields unchanged
C26_Witness ==
    /\ op = "hib_cfg_fields"
    /\ word = 43543
    /\ out.hib_threshold = 10
    /\ out.en_hib
    /\ HibCfg_into_u16(out.set[4]) = 42007

\* C27: for every 16-bit word w, ModelCfg decoded from w has model_id = bits
\* 4..7, v_chg = bit 10, r100 = bit 13 and refresh = bit 15 of w; the word
\* ez_config writes for a charge voltage above 4275 mV, 0x8400, decodes to
\* refresh set, v_chg set, model_id 0, r100 clear, and the other one, 0x8000,
\* to refresh set, v_chg clear, model_id 0, r100 clear.
C27_ModelCfgFields ==
    op = "model_cfg_fields" =>
        /\ out.model_id = BitsOf(word, 4, 7)
        /\ out.v_chg <=> Bit(word, 10) = 1
        /\ out.r100 <=> Bit(word, 13) = 1
        /\ out.refresh <=> Bit(word, 15) = 1
        /\ (word = 33792 \/ word = model_cfg_word(4276))
              => out = [model_id |-> 0, v_chg |-> TRUE, r100 |-> FALSE, refresh |-> TRUE]
        /\ (word = 32768 \/ word = model_cfg_word(4275))
              => out = [model_id |-> 0, v_chg |-> FALSE, r100 |-> FALSE, refresh |-> TRUE]

C27_Witness ==
    /\ op = "model_cfg_fields"
    /\ word = model_cfg_word(4276)
    /\ word = 33792
    /\ out.v_chg
    /\ out.refresh
    /\ out.model_id = 0
    /\ ~out.r100

-----------------------------------------------------------------------------
(* C28: ez_config on a device that answers                                 *)

NumReadsWith(register, b) ==
    Cardinality({i \in 1 .. Len(log) :
                    ReadOk(log[i], register) /\ Bit(EvWord(log[i]), b) = 1})

\* C28 (as claimed): on a device that clears DNR and Refresh in the end,
\* latches every write and answers every transaction, a call of ez_config
\* that has returned has returned Ok, and the number of 10 ms delays it
\* performed is the number of F_STAT reads with DNR set plus the number of
\* MODEL_CFG reads with Refresh set.
C28_ReturnsOkOnAnsweringDevice ==
    (op = "ez_config" /\ pc = "done") =>
        /\ result = Ok
        /\ NumDelays(log, 10) = NumReadsWith(F_STAT, 0) + NumReadsWith(MODEL_CFG, 15)

-----------------------------------------------------------------------------
(* C29: ez_config once per power cycle                                     *)

ConfigRegisters == {SOFT_WAKEUP, HIB_CFG, DESIGN_CAP, I_CHG_TERM, V_EMPTY, MODEL_CFG}

\* the call before the present one was an ez_config that returned Ok
AfterOk ==
    /\ CallStart > 0
    /\ log[CallStart].op = "ez_config"
    /\ log[CallStart].result = Ok

\* the device went through a power-on reset since that call returned
ResetSince == CallStart < Len(log) /\ log[CallStart + 1] = ResetEv

\* the transactions and delays of the present call
CallEvents ==
    IF ResetSince THEN SubSeq(log, CallStart + 2, Len(log)) ELSE CallLog

\* what the log shows of an ez_config call that follows one that returned Ok
RunOnceLog ==
    (AfterOk /\ op = "ez_config") =>
        LET c == CallEvents
            w == Writes(c)
            order == <<SOFT_WAKEUP, HIB_CFG, SOFT_WAKEUP, DESIGN_CAP, I_CHG_TERM,
                       V_EMPTY, MODEL_CFG, HIB_CFG>>
        IN  IF ~ResetSince
            THEN /\ (Len(c) >= 1 /\ ~Failed(c[1]))
                       => ReadOk(c[1], STATUS) /\ Bit(EvWord(c[1]), 1) = 0
                 /\ \A i \in 1 .. Len(c) :
                       /\ IsWrite(c[i])
                             => EvReg(c[i]) = STATUS /\ Bit(EvWord(c[i]), 1) = 0
                       /\ IsRead(c[i]) => EvReg(c[i]) \notin {F_STAT, HIB_CFG, MODEL_CFG}
                       /\ c[i] # DelayEv(10)
                 /\ (pc = "done" /\ result = Ok) => Len(w) >= 2
            ELSE /\ (Len(c) >= 1 /\ ~Failed(c[1]))
                       => /\ ReadOk(c[1], STATUS)
                          /\ Bit(EvWord(c[1]), 1) = 1
                          /\ Len(c) = 1 => pc = "wait_dnr"
                          /\ Len(c) >= 2 => IsRead(c[2]) /\ EvReg(c[2]) = F_STAT
                 /\ \A i \in 1 .. Len(w) : i <= 8 => EvReg(w[i]) = order[i]
                 /\ (pc = "done" /\ result = Ok) => Len(w) >= 10

\* C29: after a call of ez_config has returned Ok, a second call with no
\* power-on reset in between reads POR clear, writes only STATUS, with POR
\* clear (none of SOFT_WAKEUP, HIB_CFG, DESIGN_CAP, I_CHG_TERM, V_EMPTY,
\* MODEL_CFG), reads none of F_STAT, HIB_CFG, MODEL_CFG and takes no 10 ms
\* delay, and no step from the first call's return on changes one of the six
\* configuration registers of the device, whatever the second call's
\* configuration is; after a power-on reset the next call reads POR set, polls
\* F_STAT and issues the eight configuration writes again.
C29_RunOncePerPowerCycle ==
    /\ []RunOnceLog
    /\ [][(AfterOk /\ ~ResetSince /\ ~ResetSince')
             => \A r \in ConfigRegisters : dev'[r] = dev[r]]_vars

\* the first call loaded the high-voltage model; the second, asked for the
\* other one, returned Ok with the device's MODEL_CFG as the first left it
C29_Witness ==
    /\ AfterOk
    /\ ~ResetSince
    /\ op = "ez_config"
    /\ pc = "done"
    /\ result = Ok
    /\ cfg.charge_voltage_mv = 4275
    /\ \E i \in 1 .. CallStart : WriteTo(log[i], MODEL_CFG) /\ EvWord(log[i]) = 33792
    /\ dev[MODEL_CFG] = 1024
    /\ \A i \in 1 .. Len(CallEvents) :
          IsWrite(CallEvents[i]) => EvReg(CallEvents[i]) = STATUS

-----------------------------------------------------------------------------
(* C30: the diagnostic reads that end ez_config                            *)

\* index in the log of the last transaction on STATUS (0 when there is none)
LastStatusEvent ==
    LET idx == {i \in 1 .. Len(log) : EvReg(log[i]) = STATUS}
    IN  IF idx = {} THEN 0 ELSE CHOOSE i \in idx : \A j \in idx : j <= i

\* C30: in ez_config, once the verified STATUS write has returned Ok, its
\* matching read-back (POR clear) is followed only by reads, of REP_CAP,
\* REP_SOC and TTE in this order and never by a write; a failure of one of
\* them is the call's last event and makes ez_config return Error::I2c with
\* its error although the device's POR bit is clear; ez_config has returned Ok
\* exactly when the three reads have all succeeded.
C30_OkNeedsDiagnosticReads ==
    op = "ez_config" =>
        /\ result = Ok => wv_result = Ok
        /\ wv_result = Ok =>
              LET k == LastStatusEvent
                  d == SubSeq(log, k + 1, Len(log))
              IN  /\ k > wv_from
                  /\ ReadOk(log[k], STATUS)
                  /\ EvWord(log[k]) = wv_data
                  /\ Bit(EvWord(log[k]), 1) = 0
                  /\ Bit(dev[STATUS], 1) = 0
                  /\ Len(d) <= 3
                  /\ \A i \in 1 .. Len(d) :
                        /\ IsRead(d[i])
                        /\ d[i].register = <<REP_CAP, REP_SOC, TTE>>[i]
                        /\ Failed(d[i])
                              => /\ i = Len(d)
                                 /\ pc = "done"
                                 /\ result = [tag |-> "I2c", err |-> d[i].err]
                  /\ (pc = "done" /\ result = Ok) <=> (Len(d) = 3 /\ NoFailure(d))
                  /\ (Len(d) < 3 /\ NoFailure(d))
                        => /\ result = Pending
                           /\ pc = <<"rep_cap", "rep_soc", "tte">>[Len(d) + 1]

\* POR was set, has been cleared and verified, and the third diagnostic read
\* failed: ez_config returned the transport's error
C30_Witness ==
    /\ EzPorSet
    /\ wv_result = Ok
    /\ pc = "done"
    /\ result = [tag |-> "I2c", err |-> "Bus"]
    /\ Bit(dev[STATUS], 1) = 0
    /\ Len(log) - LastStatusEvent = 3
    /\ log[Len(log)] = ReadEv(TTE, <<0, 0>>, "Bus")

====
